---- MODULE Spec2Model ----
(***************************************************************************)
(* A model of the EigenDA retrieval subsystem of kona (mantle-xyz):        *)
(*   - the field-element padding codec (derive/src/eigen_da/codec.rs),      *)
(*   - the certificate codecs (derive-alloy/src/eigen_da/grpc/rlp.rs and    *)
(*     derive/src/eigen_da/eigen_da_proxy.rs),                              *)
(*   - the host's EigenDa hint handler (bin/host/src/single/handler.rs)     *)
(*     and the client's oracle provider                                     *)
(*     (proof/proof/src/l1/eigen_da_provider.rs) over the key-value store.  *)
(* Byte strings are sequences of integers in 0..255.                        *)
(***************************************************************************)
EXTENDS Integers, Sequences, FiniteSets, TLC

VARIABLES
    codecPc,      \* position of the codec run: "input", "padded", "unpadded", "panicked",
                  \* "received", "receive_panicked", "extracted", "extract_panicked"
    codecIndex,   \* the field index handed to extract_field_element
    codecData,    \* the byte string handed to convert_by_padding_empty_byte
    codecPadded,  \* the output of convert_by_padding_empty_byte
    codecOut,     \* the output of remove_empty_byte_from_padded_bytes or of
                  \* extract_field_element
    certPc,       \* position of the certificate codec run
    certValue,    \* the BlobInfo value handed to the encoder
    certBytes,    \* the encoded bytes
    certDecoded,  \* the decoder's result on certBytes: [ok, v, err]
    certAltered,  \* the record of certBytes whose list was made longer or shorter, if any
    kv,           \* the host's key-value store: PreimageKey -> bytes
    kvLock,       \* the instance whose hint handler holds the store's write lock, or 0
    pc,           \* per derivation instance: where its get_blob call and its hint stand
    hintData,     \* per instance: the commitment carried by its hint
    hostBlob,     \* per instance: the blob its hint handler fetched
    hintResult,   \* per instance: "none", "ok", "failed" or the error of the length check,
                  \* the outcome of its hint
    getBlobResult,\* per instance: what get_blob returned and the hint it read after
    lastHint,     \* the last hint handler run that reached the store: what it did
    srsLoaded,    \* whether the host can load the SRS points (resources/g1.point)
    hintCount,    \* the number of hints sent so far
    proxyPc,      \* position of the proxy call: "call", "returned", "panicked"
    proxyCall,    \* the proxy call: the commitment and what the transport answers
    proxyResult,  \* what the proxy call returned: [ok, v, err]
    sourceOpen,   \* EigenDaSource.open
    sourceData,   \* EigenDaSource.data: the payloads not yet returned
    sourceCfg,    \* EigenDaSource.signer and the provider's da_indexer_enable
    sourceBlock,  \* the block next is called with since the last clear, if any
    sourceLoad,   \* the last run of load_blobs that scanned the block: what it did
    sourceReturned, \* the payloads next has returned since the last clear
    sourceResult, \* what the last call of next returned, or that clear has run since
    sourceRef,    \* the block reference the last call of next was given, if any since clear
    netPc,        \* position of a transport operation: "called", "connecting", "requesting",
                  \* "reading", "returned"
    netOp,        \* the operation and whether its argument passes the checks made before
                  \* the network is used
    netRemote,    \* what the remote end does in each phase: "answers", "fails" or "silent"
    netResult,    \* what the operation returned: [ok, variant]
    readerData,   \* BatchReader.data: the raw channel data not yet taken, if any
    readerDecompressed, \* BatchReader.decompressed
    readerCursor, \* BatchReader.cursor
    readerMax,    \* BatchReader.max_rlp_bytes_per_channel
    readerResult, \* what the last call of next_batch returned
    readerCalls,  \* the number of calls of next_batch so far
    driverPc,     \* position of advance_to_target: "idle", "loop", "returned"
    driverAsked,  \* the target advance_to_target was called with
    driverTarget, \* the local target of advance_to_target
    driverSafeHead, \* the block number of the cursor's L2 safe head
    driverSource, \* the number of payloads the pipeline can still produce
    driverEos,    \* whether the pipeline has reported EndOfSource during the call
    driverResult  \* what advance_to_target returned

codecVars == <<codecPc, codecIndex, codecData, codecPadded, codecOut>>

certVars == <<certPc, certValue, certBytes, certDecoded, certAltered>>

oracleVars == <<kv, kvLock, pc, hintData, hostBlob, hintResult, getBlobResult, lastHint,
                srsLoaded, hintCount>>

proxyVars == <<proxyPc, proxyCall, proxyResult>>

sourceVars == <<sourceOpen, sourceData, sourceCfg, sourceBlock, sourceLoad, sourceReturned,
                sourceResult, sourceRef>>

netVars == <<netPc, netOp, netRemote, netResult>>

readerVars == <<readerData, readerDecompressed, readerCursor, readerMax, readerResult,
                readerCalls>>

driverVars == <<driverPc, driverAsked, driverTarget, driverSafeHead, driverSource, driverEos,
                driverResult>>

pipelineVars == <<readerVars, driverVars>>

derivationVars == <<proxyVars, sourceVars, netVars, pipelineVars>>

vars == <<codecPc, codecIndex, codecData, codecPadded, codecOut, certPc, certValue, certBytes, certDecoded,
         certAltered,
          kv, kvLock, pc, hintData, hostBlob, hintResult, getBlobResult, lastHint,
          srsLoaded, hintCount, proxyPc, proxyCall, proxyResult, sourceOpen, sourceData,
          sourceCfg, sourceBlock, sourceLoad, sourceReturned, sourceResult, sourceRef,
          netPc, netOp, netRemote, netResult,
          readerData, readerDecompressed, readerCursor, readerMax, readerResult, readerCalls,
          driverPc, driverAsked, driverTarget, driverSafeHead, driverSource, driverEos,
          driverResult>>

\* no transport operation has returned
NoReturn == [ok |-> FALSE, variant |-> ""]

\* no transport operation runs
NetIdle ==
    /\ netPc = "idle" /\ netOp = [name |-> "", valid |-> FALSE]
    /\ netRemote = [connect |-> "", request |-> "", body |-> ""] /\ netResult = NoReturn

\* next_batch has not been called
NoBatch == [some |-> FALSE, batch |-> <<>>]

\* no batch reader exists
ReaderIdle ==
    /\ readerData = <<>> /\ readerDecompressed = <<>> /\ readerCursor = 0 /\ readerMax = 0
    /\ readerResult = NoBatch /\ readerCalls = 0

\* advance_to_target has not returned
NoDriverResult == [ok |-> FALSE, number |-> 0, error |-> ""]

\* no driver runs
DriverIdle ==
    /\ driverPc = "idle" /\ driverAsked = <<>> /\ driverTarget = <<>> /\ driverSafeHead = 0
    /\ driverSource = 0 /\ driverEos = FALSE /\ driverResult = NoDriverResult

\* neither a batch reader nor a driver runs
PipelineIdle == ReaderIdle /\ DriverIdle

\* no proxy call is made
ProxyIdle == proxyPc = "idle" /\ proxyCall = <<>> /\ proxyResult = <<>>

\* next has not been called since the source was made or cleared
NoCall == [ok |-> FALSE, v |-> <<>>, kind |-> "none", error |-> "", msg |-> <<>>]

\* load_blobs has not scanned a block since the source was made or cleared
NoLoad ==
    [out |-> <<>>, hashes |-> <<>>, number |-> 0, visited |-> 0, decoded |-> {},
     requests |-> <<>>, status |-> "none", at |-> 0, error |-> [variant |-> "", msg |-> <<>>]]

\* no data source runs
SourceIdle ==
    /\ sourceOpen = FALSE /\ sourceData = <<>> /\ sourceCfg = <<>> /\ sourceBlock = <<>>
    /\ sourceLoad = NoLoad /\ sourceReturned = <<>> /\ sourceResult = NoCall
    /\ sourceRef = <<>>

(***************************************************************************)
(* Bounds                                                                  *)
(***************************************************************************)
\* longest byte string handed to the padding codec
MaxDataLen == 64
\* number of byte patterns the inputs are filled with
MaxPattern == 2
\* longest list of quorum params in a certificate's blob header
MaxQuorumParams == 2
\* longest quorum_indexes byte string in a certificate's verification proof
MaxQuorumIndexes == 2
\* largest data_length (in field elements) of a hinted certificate
MaxFieldElements == 2
\* number of hints sent over a run
MaxHints == 2
\* largest low part of a field index handed to extract_field_element
MaxFieldIndex == 3

(***************************************************************************)
(* Byte-string helpers                                                     *)
(***************************************************************************)
Zeros(n) == [j \in 1..n |-> 0]

\* data[lo..hi) of a 0-indexed Rust slice, as a sequence
Slice(s, lo, hi) == [j \in 1..(hi - lo) |-> s[lo + j]]

Min(a, b) == IF a < b THEN a ELSE b

\* the byte at 0-indexed position i of the input with pattern p
PatternByte(p, i) == (p * (i + 1) + (p \div 2) * 7) % 256

PatternBytes(p, n) == [j \in 1..n |-> PatternByte(p, j - 1)]

\* <[T]>::copy_from_slice on dst[lo..hi): panics unless the lengths are equal
CopyFromSlice(dst, lo, hi, src) ==
    IF hi - lo # Len(src) \/ hi > Len(dst) \/ lo > hi
    THEN [panic |-> TRUE, v |-> dst]
    ELSE [panic |-> FALSE,
          v |-> [j \in 1..Len(dst) |-> IF j > lo /\ j <= hi THEN src[j - lo] ELSE dst[j]]]

(***************************************************************************)
(* derive/src/eigen_da/codec.rs                                            *)
(***************************************************************************)
BYTES_PER_SYMBOL == 32

\* the body of the for loop of convert_by_padding_empty_byte, from index i on
RECURSIVE PadLoop(_, _, _, _, _)
PadLoop(data, i, data_len, valid_data, valid_end) ==
    IF i >= data_len
    THEN [panic |-> FALSE, out |-> SubSeq(valid_data, 1, valid_end)]
    ELSE LET parse_size == BYTES_PER_SYMBOL - 1
             put_size == BYTES_PER_SYMBOL
             start == i * parse_size
             short == (i + 1) * parse_size > Len(data)
             end == IF short THEN Len(data) ELSE (i + 1) * parse_size
             new_end == IF short THEN end - start + 1 + i * put_size ELSE valid_end
             lead == [valid_data EXCEPT ![i * BYTES_PER_SYMBOL + 1] = 0]
             cp == CopyFromSlice(lead, i * BYTES_PER_SYMBOL + 1, (i + 1) * BYTES_PER_SYMBOL,
                                 Slice(data, start, end))
         IN IF cp.panic
            THEN [panic |-> TRUE, out |-> <<>>]
            ELSE PadLoop(data, i + 1, data_len, cp.v, new_end)

convert_by_padding_empty_byte(data) ==
    LET parse_size == BYTES_PER_SYMBOL - 1
        put_size == BYTES_PER_SYMBOL
        data_len == (Len(data) + parse_size - 1) \div parse_size
    IN PadLoop(data, 0, data_len, Zeros(data_len * put_size), data_len * put_size)

\* the body of the for loop of remove_empty_byte_from_padded_bytes, from index i on
RECURSIVE UnpadLoop(_, _, _, _, _)
UnpadLoop(data, i, data_len, valid_data, valid_len) ==
    IF i >= data_len
    THEN [panic |-> FALSE, out |-> SubSeq(valid_data, 1, valid_len)]
    ELSE LET parse_size == BYTES_PER_SYMBOL
             put_size == BYTES_PER_SYMBOL - 1
             start == i * parse_size + 1
             short == (i + 1) * parse_size > Len(data)
             end == IF short THEN Len(data) ELSE (i + 1) * parse_size
             new_len == IF short THEN end - start + i * put_size ELSE valid_len
             cp == CopyFromSlice(valid_data, i * put_size, (i + 1) * put_size,
                                 Slice(data, start, end))
         IN IF cp.panic
            THEN [panic |-> TRUE, out |-> <<>>]
            ELSE UnpadLoop(data, i + 1, data_len, cp.v, new_len)

remove_empty_byte_from_padded_bytes(data) ==
    LET parse_size == BYTES_PER_SYMBOL
        put_size == BYTES_PER_SYMBOL - 1
        data_len == (Len(data) + parse_size - 1) \div parse_size
    IN UnpadLoop(data, 0, data_len, Zeros(data_len * put_size), data_len * put_size)

(***************************************************************************)
(* The length-prefixed binary scheme (RLP) as the rlp crate's RlpStream and  *)
(* Rlp implement it, in the calls derive-alloy/src/eigen_da/grpc/rlp.rs     *)
(* makes.  A decode result is [ok, v, err].                                 *)
(***************************************************************************)
RECURSIVE BEBytes(_)
\* minimal big-endian bytes of n; zero is the empty string
BEBytes(n) == IF n = 0 THEN <<>> ELSE BEBytes(n \div 256) \o <<n % 256>>

RECURSIVE BEValue(_)
BEValue(b) == IF Len(b) = 0 THEN 0 ELSE BEValue(SubSeq(b, 1, Len(b) - 1)) * 256 + b[Len(b)]

RECURSIVE Flatten(_)
Flatten(ss) == IF Len(ss) = 0 THEN <<>> ELSE Head(ss) \o Flatten(Tail(ss))

Ok(v) == [ok |-> TRUE, v |-> v, err |-> ""]
Err(e) == [ok |-> FALSE, v |-> <<>>, err |-> e]

None == <<>>
Some(v) == <<v>>

\* no record of the encoding was altered
Unaltered == [record |-> "", delta |-> 0]

\* the header of an item of len payload bytes: offset 0x80 for data, 0xc0 for a list
RlpHeader(len, offset) ==
    IF len < 56 THEN <<offset + len>>
    ELSE <<offset + 55 + Len(BEBytes(len))>> \o BEBytes(len)

\* RlpStream::append of a byte string (Vec<u8>)
RlpBytes(b) == IF Len(b) = 1 /\ b[1] < 128 THEN b ELSE RlpHeader(Len(b), 128) \o b

\* RlpStream::append of an unsigned integer: big-endian without leading zeros
RlpUint(n) == RlpBytes(BEBytes(n))

\* RlpStream::begin_list(n) followed by n appended items
RlpList(items) == RlpHeader(Len(Flatten(items)), 192) \o Flatten(items)

\* RlpStream::append_empty_data
RlpEmptyData == <<128>>

PayloadErr(e) == [ok |-> FALSE, header_len |-> 0, value_len |-> 0, err |-> e]
PayloadOk(header_len, value_len) ==
    [ok |-> TRUE, header_len |-> header_len, value_len |-> value_len, err |-> ""]

\* a long item whose length bytes hold value_len
PayloadLongValue(header_len, value_len) ==
    IF value_len <= 55 THEN PayloadErr("RlpInvalidIndirection")
    ELSE PayloadOk(header_len, value_len)

\* a long item: header_len - 1 length bytes follow the first byte
PayloadLong(b, header_len) ==
    IF Len(b) < 2 THEN PayloadErr("RlpIsTooShort")
    ELSE IF b[2] = 0 THEN PayloadErr("RlpDataLenWithZeroPrefix")
    ELSE IF Len(b) < header_len THEN PayloadErr("RlpIsTooShort")
    ELSE PayloadLongValue(header_len, BEValue(SubSeq(b, 2, header_len)))

\* BasicDecoder::payload_info by the first byte l
PayloadHeader(b, l) ==
    IF l <= 127 THEN PayloadOk(0, 1)
    ELSE IF l <= 183 THEN PayloadOk(1, l - 128)
    ELSE IF l <= 191 THEN PayloadLong(b, 1 + (l - 183))
    ELSE IF l <= 247 THEN PayloadOk(1, l - 192)
    ELSE PayloadLong(b, 1 + (l - 247))

\* the item must hold header_len + value_len bytes
PayloadFits(b, info) ==
    IF info.ok /\ info.header_len + info.value_len > Len(b) THEN PayloadErr("RlpIsTooShort")
    ELSE info

\* PayloadInfo::from and BasicDecoder::payload_info
PayloadInfo(b) ==
    IF Len(b) = 0 THEN PayloadErr("RlpIsTooShort") ELSE PayloadFits(b, PayloadHeader(b, b[1]))

\* Rlp::is_list, Rlp::is_data, Rlp::is_empty
RlpIsList(b) == Len(b) > 0 /\ b[1] >= 192
RlpIsData(b) == Len(b) > 0 /\ b[1] < 192
RlpIsEmpty(b) == Len(b) > 0 /\ (b[1] = 192 \/ b[1] = 128)

RECURSIVE SplitItems(_)
\* the first item of a payload, followed by the items of the rest
SplitFirst(payload, info) ==
    IF ~info.ok THEN <<>>
    ELSE <<SubSeq(payload, 1, info.header_len + info.value_len)>>
         \o SplitItems(SubSeq(payload, info.header_len + info.value_len + 1, Len(payload)))

\* the items of a list payload that Rlp::at can reach: the well-formed leading ones
SplitItems(payload) == SplitFirst(payload, PayloadInfo(payload))

\* the items of a list whose payload info is known
RlpItemsOf(b, info) ==
    IF ~info.ok THEN <<>>
    ELSE SplitItems(SubSeq(b, info.header_len + 1, info.header_len + info.value_len))

\* the items Rlp::iter yields (Rlp::at(i).ok() for i = 0, 1, ... until the first None)
RlpItems(b) == IF ~RlpIsList(b) THEN <<>> ELSE RlpItemsOf(b, PayloadInfo(b))

\* Rlp::item_count
RlpItemCount(b) == IF RlpIsList(b) THEN Ok(Len(RlpItems(b))) ELSE Err("RlpExpectedToBeList")

\* the item at index i among the reachable items
RlpAtItem(items, i) == IF i < Len(items) THEN Ok(items[i + 1]) ELSE Err("RlpIsTooShort")

\* Rlp::at once the payload info of the list is known
RlpAtInfo(b, info, i) ==
    IF ~info.ok THEN Err(info.err) ELSE RlpAtItem(RlpItemsOf(b, info), i)

\* Rlp::at
RlpAt(b, i) ==
    IF ~RlpIsList(b) THEN Err("RlpExpectedToBeList") ELSE RlpAtInfo(b, PayloadInfo(b), i)

\* the data of a long string: its length is the big-endian value of the length bytes
RlpLongValue(b, begin, len) ==
    IF Len(b) < begin + len THEN Err("RlpInconsistentLengthAndData")
    ELSE Ok(SubSeq(b, begin + 1, begin + len))

\* BasicDecoder::decode_value with the identity closure: the payload of a data item
RlpDecodeValue(b) ==
    IF Len(b) = 0 THEN Err("RlpIsTooShort")
    ELSE IF b[1] <= 127 THEN Ok(<<b[1]>>)
    ELSE IF b[1] <= 183
         THEN IF Len(b) < 1 + b[1] - 128 THEN Err("RlpInconsistentLengthAndData")
              ELSE IF b[1] = 129 /\ b[2] < 128 THEN Err("RlpInvalidIndirection")
              ELSE Ok(SubSeq(b, 2, 1 + b[1] - 128))
    ELSE IF b[1] <= 191
         THEN IF Len(b) < 1 + (b[1] - 183) THEN Err("RlpInconsistentLengthAndData")
              ELSE IF b[2] = 0 THEN Err("RlpInvalidIndirection")
              ELSE RlpLongValue(b, 1 + (b[1] - 183), BEValue(SubSeq(b, 2, 1 + (b[1] - 183))))
    ELSE Err("RlpExpectedToBeData")

\* <Vec<u8> as Decodable>::decode
DecodeBytes(b) == RlpDecodeValue(b)

\* <u8 as Decodable>::decode on the decoded payload d
U8FromValue(d) ==
    IF ~d.ok THEN d
    ELSE IF Len(d.v) = 1 /\ d.v[1] # 0 THEN Ok(d.v[1])
    ELSE IF Len(d.v) = 0 THEN Ok(0)
    ELSE IF Len(d.v) = 1 THEN Err("RlpInvalidIndirection")
    ELSE Err("RlpIsTooBig")

\* <u8 as Decodable>::decode
DecodeU8(b) == U8FromValue(RlpDecodeValue(b))

\* <u32 as Decodable>::decode on the decoded payload d: at most 4 bytes, no leading zero
U32FromValue(d) ==
    IF ~d.ok THEN d
    ELSE IF Len(d.v) <= 1 THEN U8FromValue(d)
    ELSE IF Len(d.v) <= 4
         THEN IF d.v[1] = 0 THEN Err("RlpInvalidIndirection") ELSE Ok(BEValue(d.v))
    ELSE Err("RlpIsTooBig")

\* <u32 as Decodable>::decode
DecodeU32(b) == U32FromValue(RlpDecodeValue(b))

\* at(i)?.as_val(): the error of the item a, or the decoded value d of the item
AsVal(a, d) == IF ~a.ok THEN a ELSE d

\* Rlp::val_at(i) of a byte string
BytesAt(b, i) == AsVal(RlpAt(b, i), DecodeBytes(RlpAt(b, i).v))

\* Rlp::val_at(i) of a u32
U32At(b, i) == AsVal(RlpAt(b, i), DecodeU32(RlpAt(b, i).v))

\* the decoded items, or the first error among them
CollectItems(res) ==
    IF \A j \in 1..Len(res) : res[j].ok THEN Ok([j \in 1..Len(res) |-> res[j].v])
    ELSE Err(res[CHOOSE j \in 1..Len(res) : ~res[j].ok /\ \A k \in 1..(j - 1) : res[k].ok].err)

\* at(i)?.as_list(): the error of the item a, or the items Rlp::iter yields, each
\* decoded into res; the first error among them is returned
AsListOf(a, res) == IF ~a.ok THEN a ELSE CollectItems(res)

\* each item decoded as a u8
U8Items(items) == [j \in 1..Len(items) |-> DecodeU8(items[j])]

\* Rlp::list_at(i) of u8
U8ListAt(b, i) == AsListOf(RlpAt(b, i), U8Items(RlpItems(RlpAt(b, i).v)))

\* Some(d?) of a decoded sub-record
SomeOf(d) == IF d.ok THEN Ok(Some(d.v)) ELSE d

\* an optional sub-record at item a: decoded into d only when the item is not empty
OptionOf(a, d) ==
    IF ~a.ok THEN a
    ELSE IF ~RlpIsEmpty(a.v) THEN SomeOf(d)
    ELSE Ok(None)

(***************************************************************************)
(* derive-alloy/src/eigen_da/grpc/rlp.rs: Encodable and Decodable of the    *)
(* certificate records                                                      *)
(***************************************************************************)
EncodeG1Commitment(c) == RlpList(<<RlpBytes(c.x), RlpBytes(c.y)>>)

\* G1Commitment::decode once the item count and the fields are read
G1CommitmentFrom(n, x, y) ==
    IF ~n.ok THEN n
    ELSE IF n.v # 2 THEN Err("RlpIncorrectListLen")
    ELSE IF ~x.ok THEN x
    ELSE IF ~y.ok THEN y
    ELSE Ok([x |-> x.v, y |-> y.v])

DecodeG1Commitment(b) ==
    G1CommitmentFrom(RlpItemCount(b), BytesAt(b, 0), BytesAt(b, 1))

EncodeBlobQuorumParam(q) ==
    RlpList(<<RlpUint(q.quorum_number), RlpUint(q.adversary_threshold_percentage),
              RlpUint(q.confirmation_threshold_percentage), RlpUint(q.chunk_length)>>)

\* BlobQuorumParam::decode once the item count and the fields are read
BlobQuorumParamFrom(n, f0, f1, f2, f3) ==
    IF ~n.ok THEN n
    ELSE IF n.v # 4 THEN Err("RlpIncorrectListLen")
    ELSE IF ~f0.ok THEN f0
    ELSE IF ~f1.ok THEN f1
    ELSE IF ~f2.ok THEN f2
    ELSE IF ~f3.ok THEN f3
    ELSE Ok([quorum_number |-> f0.v, adversary_threshold_percentage |-> f1.v,
             confirmation_threshold_percentage |-> f2.v, chunk_length |-> f3.v])

DecodeBlobQuorumParam(b) ==
    BlobQuorumParamFrom(RlpItemCount(b), U32At(b, 0), U32At(b, 1),
                        U32At(b, 2), U32At(b, 3))

EncodeBlobHeader(h) ==
    RlpList(<<IF h.commitment # None THEN EncodeG1Commitment(h.commitment[1]) ELSE RlpEmptyData,
              RlpUint(h.data_length),
              RlpList([j \in 1..Len(h.blob_quorum_params) |->
                          EncodeBlobQuorumParam(h.blob_quorum_params[j])])>>)

\* each item decoded as a BlobQuorumParam
BlobQuorumParamItems(items) == [j \in 1..Len(items) |-> DecodeBlobQuorumParam(items[j])]

\* Rlp::list_at(i) of BlobQuorumParam
BlobQuorumParamsAt(b, i) ==
    AsListOf(RlpAt(b, i), BlobQuorumParamItems(RlpItems(RlpAt(b, i).v)))

\* BlobHeader::decode once the item count and the fields are read
BlobHeaderFrom(n, commitment, data_length, blob_quorum_params) ==
    IF ~n.ok THEN n
    ELSE IF n.v < 3 THEN Err("RlpIncorrectListLen")
    ELSE IF ~commitment.ok THEN commitment
    ELSE IF ~data_length.ok THEN data_length
    ELSE IF ~blob_quorum_params.ok THEN blob_quorum_params
    ELSE Ok([commitment |-> commitment.v, data_length |-> data_length.v,
             blob_quorum_params |-> blob_quorum_params.v])

DecodeBlobHeader(b) ==
    BlobHeaderFrom(RlpItemCount(b),
                   OptionOf(RlpAt(b, 0), DecodeG1Commitment(RlpAt(b, 0).v)),
                   U32At(b, 1), BlobQuorumParamsAt(b, 2))

EncodeBatchHeader(h) ==
    RlpList(<<RlpBytes(h.batch_root), RlpBytes(h.quorum_numbers),
              RlpBytes(h.quorum_signed_percentages), RlpUint(h.reference_block_number)>>)

\* BatchHeader::decode once the item count and the fields are read
BatchHeaderFrom(n, f0, f1, f2, f3) ==
    IF ~n.ok THEN n
    ELSE IF n.v # 4 THEN Err("RlpIncorrectListLen")
    ELSE IF ~f0.ok THEN f0
    ELSE IF ~f1.ok THEN f1
    ELSE IF ~f2.ok THEN f2
    ELSE IF ~f3.ok THEN f3
    ELSE Ok([batch_root |-> f0.v, quorum_numbers |-> f1.v,
             quorum_signed_percentages |-> f2.v, reference_block_number |-> f3.v])

DecodeBatchHeader(b) ==
    BatchHeaderFrom(RlpItemCount(b), BytesAt(b, 0), BytesAt(b, 1),
                    BytesAt(b, 2), U32At(b, 3))

EncodeBatchMetadata(m) ==
    RlpList(<<IF m.batch_header # None THEN EncodeBatchHeader(m.batch_header[1]) ELSE RlpEmptyData,
              RlpBytes(m.signatory_record_hash), RlpBytes(m.fee),
              RlpUint(m.confirmation_block_number), RlpBytes(m.batch_header_hash)>>)

\* BatchMetadata::decode once the item count and the fields are read
BatchMetadataFrom(n, f0, f1, f2, f3, f4) ==
    IF ~n.ok THEN n
    ELSE IF n.v # 5 THEN Err("RlpIncorrectListLen")
    ELSE IF ~f0.ok THEN f0
    ELSE IF ~f1.ok THEN f1
    ELSE IF ~f2.ok THEN f2
    ELSE IF ~f3.ok THEN f3
    ELSE IF ~f4.ok THEN f4
    ELSE Ok([batch_header |-> f0.v, signatory_record_hash |-> f1.v, fee |-> f2.v,
             confirmation_block_number |-> f3.v, batch_header_hash |-> f4.v])

DecodeBatchMetadata(b) ==
    BatchMetadataFrom(RlpItemCount(b),
                      OptionOf(RlpAt(b, 0), DecodeBatchHeader(RlpAt(b, 0).v)),
                      BytesAt(b, 1), BytesAt(b, 2), U32At(b, 3), BytesAt(b, 4))

EncodeBlobVerificationProof(p) ==
    RlpList(<<RlpUint(p.batch_id), RlpUint(p.blob_index),
              IF p.batch_metadata # None THEN EncodeBatchMetadata(p.batch_metadata[1])
                                         ELSE RlpEmptyData,
              RlpBytes(p.inclusion_proof), RlpBytes(p.quorum_indexes)>>)

\* a decoder that reads batch_id and blob_index from each other's position
BlobVerificationProofSwapped(n, f0, f1, f2, f3, f4) ==
    IF ~n.ok THEN n
    ELSE IF n.v # 5 THEN Err("RlpIncorrectListLen")
    ELSE IF ~f0.ok THEN f0
    ELSE IF ~f1.ok THEN f1
    ELSE IF ~f2.ok THEN f2
    ELSE IF ~f3.ok THEN f3
    ELSE IF ~f4.ok THEN f4
    ELSE Ok([batch_id |-> f1.v, blob_index |-> f0.v, batch_metadata |-> f2.v,
             inclusion_proof |-> f3.v, quorum_indexes |-> f4.v])

\* BlobVerificationProof::decode once the item count and the fields are read
BlobVerificationProofFrom(n, f0, f1, f2, f3, f4) ==
    IF ~n.ok THEN n
    ELSE IF n.v # 5 THEN Err("RlpIncorrectListLen")
    ELSE IF ~f0.ok THEN f0
    ELSE IF ~f1.ok THEN f1
    ELSE IF ~f2.ok THEN f2
    ELSE IF ~f3.ok THEN f3
    ELSE IF ~f4.ok THEN f4
    ELSE Ok([batch_id |-> f0.v, blob_index |-> f1.v, batch_metadata |-> f2.v,
             inclusion_proof |-> f3.v, quorum_indexes |-> f4.v])

\* quorum_indexes is read with list_at(4) although it is written as a byte string
DecodeBlobVerificationProof(b) ==
    BlobVerificationProofFrom(RlpItemCount(b), U32At(b, 0), U32At(b, 1),
                              OptionOf(RlpAt(b, 2), DecodeBatchMetadata(RlpAt(b, 2).v)),
                              BytesAt(b, 3), U8ListAt(b, 4))

EncodeBlobInfo(v) ==
    RlpList(<<IF v.blob_header # None THEN EncodeBlobHeader(v.blob_header[1]) ELSE RlpEmptyData,
              IF v.blob_verification_proof # None
                  THEN EncodeBlobVerificationProof(v.blob_verification_proof[1])
                  ELSE RlpEmptyData>>)

\* BlobInfo::decode once the item count and the fields are read
BlobInfoFrom(n, blob_header, blob_verification_proof) ==
    IF ~n.ok THEN n
    ELSE IF n.v # 2 THEN Err("RlpIncorrectListLen")
    ELSE IF ~blob_header.ok THEN blob_header
    ELSE IF ~blob_verification_proof.ok THEN blob_verification_proof
    ELSE Ok([blob_header |-> blob_header.v,
             blob_verification_proof |-> blob_verification_proof.v])

DecodeBlobInfo(b) ==
    BlobInfoFrom(RlpItemCount(b), OptionOf(RlpAt(b, 0), DecodeBlobHeader(RlpAt(b, 0).v)),
                 OptionOf(RlpAt(b, 1), DecodeBlobVerificationProof(RlpAt(b, 1).v)))

(***************************************************************************)
(* prost::Message::encode of the certificate records (proto3 wire format),  *)
(* as encode_commitment calls it                                            *)
(***************************************************************************)
RECURSIVE Varint(_)
Varint(n) == IF n < 128 THEN <<n>> ELSE <<128 + (n % 128)>> \o Varint(n \div 128)

\* a uint32 field: omitted when zero
ProstUint(field, n) == IF n = 0 THEN <<>> ELSE Varint(field * 8) \o Varint(n)

\* a bytes field: omitted when empty
ProstBytes(field, b) == IF Len(b) = 0 THEN <<>> ELSE Varint(field * 8 + 2) \o Varint(Len(b)) \o b

\* an embedded message, given its encoding
ProstMessage(field, enc) == Varint(field * 8 + 2) \o Varint(Len(enc)) \o enc

ProstG1Commitment(c) == ProstBytes(1, c.x) \o ProstBytes(2, c.y)

ProstBlobQuorumParam(q) ==
    ProstUint(1, q.quorum_number) \o ProstUint(2, q.adversary_threshold_percentage)
        \o ProstUint(3, q.confirmation_threshold_percentage) \o ProstUint(4, q.chunk_length)

ProstBlobHeader(h) ==
    (IF h.commitment # None THEN ProstMessage(1, ProstG1Commitment(h.commitment[1])) ELSE <<>>)
        \o ProstUint(2, h.data_length)
        \o Flatten([j \in 1..Len(h.blob_quorum_params) |->
                       ProstMessage(3, ProstBlobQuorumParam(h.blob_quorum_params[j]))])

ProstBatchHeader(h) ==
    ProstBytes(1, h.batch_root) \o ProstBytes(2, h.quorum_numbers)
        \o ProstBytes(3, h.quorum_signed_percentages) \o ProstUint(4, h.reference_block_number)

ProstBatchMetadata(m) ==
    (IF m.batch_header # None THEN ProstMessage(1, ProstBatchHeader(m.batch_header[1])) ELSE <<>>)
        \o ProstBytes(2, m.signatory_record_hash) \o ProstBytes(3, m.fee)
        \o ProstUint(4, m.confirmation_block_number) \o ProstBytes(5, m.batch_header_hash)

ProstBlobVerificationProof(p) ==
    ProstUint(1, p.batch_id) \o ProstUint(2, p.blob_index)
        \o (IF p.batch_metadata # None
               THEN ProstMessage(3, ProstBatchMetadata(p.batch_metadata[1])) ELSE <<>>)
        \o ProstBytes(4, p.inclusion_proof) \o ProstBytes(5, p.quorum_indexes)

ProstBlobInfo(v) ==
    (IF v.blob_header # None THEN ProstMessage(1, ProstBlobHeader(v.blob_header[1])) ELSE <<>>)
        \o (IF v.blob_verification_proof # None
               THEN ProstMessage(2, ProstBlobVerificationProof(v.blob_verification_proof[1]))
               ELSE <<>>)

(***************************************************************************)
(* derive/src/eigen_da/eigen_da_proxy.rs                                   *)
(***************************************************************************)
CERT_V0 == 0
EIGEN_DA_COMMITMENT_TYPE == 0
GENERIC_COMMITMENT_TYPE == 1

\* a mutant of decode_commitment: the three metadata bytes are skipped unread
decode_commitment_unchecked(commitment) == DecodeBlobInfo(SubSeq(commitment, 4, Len(commitment)))

\* EigenDaProxy::decode_commitment
decode_commitment(commitment) ==
    IF Len(commitment) < 3 THEN Err("commitment is too short")
    ELSE LET op_type == commitment[1]
             da_provider == commitment[2]
             cert_version == commitment[3]
         IN IF op_type # GENERIC_COMMITMENT_TYPE \/ da_provider # EIGEN_DA_COMMITMENT_TYPE
                  \/ cert_version # CERT_V0
            THEN Err("invalid commitment type")
            ELSE DecodeBlobInfo(SubSeq(commitment, 4, Len(commitment)))

\* EigenDaProxy::encode_commitment
encode_commitment(blob_info) ==
    LET blob_info_bytes == ProstBlobInfo(blob_info)
        rlp_encoded_bytes == RlpBytes(blob_info_bytes)
    IN <<GENERIC_COMMITMENT_TYPE, EIGEN_DA_COMMITMENT_TYPE, CERT_V0>> \o rlp_encoded_bytes

(***************************************************************************)
(* The certificate codec run: encode a BlobInfo, then decode the bytes      *)
(***************************************************************************)
\* a 32-byte value (a hash or a curve coordinate) numbered k
B32(k) == [j \in 1..32 |-> (k * j + k) % 256]

QuorumParamList == <<[quorum_number |-> 0, adversary_threshold_percentage |-> 33,
                      confirmation_threshold_percentage |-> 55, chunk_length |-> 1],
                     [quorum_number |-> 1, adversary_threshold_percentage |-> 33,
                      confirmation_threshold_percentage |-> 55, chunk_length |-> 16],
                     [quorum_number |-> 2, adversary_threshold_percentage |-> 0,
                      confirmation_threshold_percentage |-> 100, chunk_length |-> 70000]>>

G1Values == {[x |-> B32(3), y |-> B32(5)], [x |-> <<>>, y |-> <<1>>]}

BlobHeaderValues ==
    {[commitment |-> c, data_length |-> d,
      blob_quorum_params |-> [j \in 1..n |-> QuorumParamList[((j - 1) % 3) + 1]]] :
        c \in {None} \cup {Some(g) : g \in G1Values}, d \in {0, 512}, n \in 0..MaxQuorumParams}

BatchHeaderValues ==
    {[batch_root |-> B32(7), quorum_numbers |-> <<0, 1>>,
      quorum_signed_percentages |-> <<99, 98>>, reference_block_number |-> 2783691]}

BatchMetadataValues ==
    {[batch_header |-> Some(h), signatory_record_hash |-> B32(11), fee |-> <<0>>,
      confirmation_block_number |-> 2783776, batch_header_hash |-> B32(13)] :
        h \in BatchHeaderValues}
    \cup {[batch_header |-> None, signatory_record_hash |-> <<>>, fee |-> <<>>,
           confirmation_block_number |-> 0, batch_header_hash |-> <<200>>]}

BlobVerificationProofValues ==
    {[batch_id |-> 84142, blob_index |-> i, batch_metadata |-> m, inclusion_proof |-> ip,
      quorum_indexes |-> [j \in 1..n |-> j - 1]] :
        i \in {0, 165}, m \in {None} \cup {Some(bm) : bm \in BatchMetadataValues},
        ip \in {<<>>, PatternBytes(1, 60)}, n \in 0..MaxQuorumIndexes}

BlobInfoValues ==
    {[blob_header |-> h, blob_verification_proof |-> p] :
        h \in {None} \cup {Some(bh) : bh \in BlobHeaderValues},
        p \in {None} \cup {Some(bp) : bp \in BlobVerificationProofValues}}

InitCert ==
    /\ certPc = "input"
    /\ certValue \in BlobInfoValues
    /\ certBytes = <<>>
    /\ certDecoded = Err("")
    /\ certAltered = Unaltered

\* rlp::encode of the BlobInfo
RlpEncodeCert ==
    /\ certPc = "input"
    /\ certBytes' = EncodeBlobInfo(certValue)
    /\ certPc' = "rlp_encoded"
    /\ UNCHANGED <<certValue, certDecoded, certAltered>>
    /\ UNCHANGED <<codecVars, oracleVars, derivationVars>>

\* rlp::decode of the encoded bytes as a BlobInfo
RlpDecodeCert ==
    /\ certPc = "rlp_encoded"
    /\ certDecoded' = DecodeBlobInfo(certBytes)
    /\ certPc' = "rlp_decoded"
    /\ UNCHANGED <<certValue, certBytes, certAltered>>
    /\ UNCHANGED <<codecVars, oracleVars, derivationVars>>

\* EigenDaProxy::encode_commitment of the BlobInfo
EncodeCommitment ==
    /\ certPc = "input"
    /\ certBytes' = encode_commitment(certValue)
    /\ certPc' = "commitment"
    /\ UNCHANGED <<certValue, certDecoded, certAltered>>
    /\ UNCHANGED <<codecVars, oracleVars, derivationVars>>

\* EigenDaProxy::decode_commitment of the commitment
DecodeCommitment ==
    /\ certPc = "commitment"
    /\ certDecoded' = decode_commitment(certBytes)
    /\ certPc' = "commitment_decoded"
    /\ UNCHANGED <<certValue, certBytes, certAltered>>
    /\ UNCHANGED <<codecVars, oracleVars, derivationVars>>

\* the metadata bytes a received commitment may start with
ReceivedPrefixes == {<<1, 0, 0>>, <<0, 0, 0>>, <<2, 0, 0>>, <<1, 1, 0>>, <<1, 0, 1>>}

\* EigenDaProxy::decode_commitment of a received commitment: the first cut bytes of
\* prefix and the RLP encoding of the BlobInfo
DecodeReceived(prefix, cut) ==
    /\ certPc = "rlp_encoded"
    /\ certBytes' = SubSeq(prefix \o certBytes, 1, cut)
    /\ certDecoded' = decode_commitment(SubSeq(prefix \o certBytes, 1, cut))
    /\ certPc' = "received_decoded"
    /\ UNCHANGED <<certValue, certAltered>>
    /\ UNCHANGED <<codecVars, oracleVars, derivationVars>>

\* where the list of each record sits in the encoding of a BlobInfo: the positions of the
\* items to descend into, from the outermost list
RecordPath(record) ==
    CASE record = "BlobInfo" -> <<>>
      [] record = "BlobHeader" -> <<0>>
      [] record = "G1Commitment" -> <<0, 0>>
      [] record = "BlobQuorumParam" -> <<0, 2, 0>>
      [] record = "BlobVerificationProof" -> <<1>>
      [] record = "BatchMetadata" -> <<1, 2>>
      [] record = "BatchHeader" -> <<1, 2, 0>>

Records == {"BlobInfo", "BlobHeader", "G1Commitment", "BlobQuorumParam",
            "BlobVerificationProof", "BatchMetadata", "BatchHeader"}

\* the encoding b holds a list at path
RECURSIVE HasListAt(_, _)
HasListAt(b, path) ==
    /\ RlpIsList(b)
    /\ path # <<>> => /\ path[1] < Len(RlpItems(b))
                      /\ HasListAt(RlpItems(b)[path[1] + 1], Tail(path))

\* items with one item more (delta = 1) or without the last one (delta = -1)
Resized(items, delta) ==
    IF delta = 1 THEN Append(items, <<1>>) ELSE SubSeq(items, 1, Len(items) - 1)

\* the encoding b with the list at path resized, as a sender can write it
RECURSIVE ResizedAt(_, _, _)
ResizedAt(b, path, delta) ==
    IF path = <<>> THEN RlpList(Resized(RlpItems(b), delta))
    ELSE RlpList([RlpItems(b) EXCEPT ![path[1] + 1] = ResizedAt(@, Tail(path), delta)])

\* rlp::decode as a BlobInfo of an encoding in which the list of one record has one item
\* more or one item less than the record has fields
DecodeAltered(record, delta) ==
    /\ certPc = "rlp_encoded"
    /\ HasListAt(certBytes, RecordPath(record))
    /\ certBytes' = ResizedAt(certBytes, RecordPath(record), delta)
    /\ certDecoded' = DecodeBlobInfo(ResizedAt(certBytes, RecordPath(record), delta))
    /\ certAltered' = [record |-> record, delta |-> delta]
    /\ certPc' = "altered_decoded"
    /\ UNCHANGED certValue
    /\ UNCHANGED <<codecVars, oracleVars, derivationVars>>

(***************************************************************************)
(* The codec run: pad an input, then unpad the result                      *)
(***************************************************************************)
CodecInputs == {PatternBytes(p, n) : p \in 0..MaxPattern, n \in 0..MaxDataLen}

(***************************************************************************)
(* The preimage oracle protocol: the host's EigenDa hint handler            *)
(* (bin/host/src/single/handler.rs), the witness computation                *)
(* (bin/host/src/witness/witness.rs), the key helpers                       *)
(* (protocol/eigenda/src/utils.rs) and the client's oracle provider         *)
(* (proof/proof/src/l1/eigen_da_provider.rs)                                *)
(***************************************************************************)
BYTES_PER_FIELD_ELEMENT == 32
METADATA_SIZE == 3
MIN_HEADER_SIZE == 32
BLOB_KEY_SIZE == 96
FIELD_ELEMENT_SIZE == 32
KZG_PROOF_KEY_SIZE == 64
KZG_COMMITMENT_KEY_SIZE == 65
COMMITMENT_X_OFFSET == 0
COMMITMENT_Y_OFFSET == 32
FIELD_INDEX_OFFSET == 88

RECURSIVE BEFixed(_, _)
\* the low width bytes of n, big-endian
BEFixed(n, width) == IF width = 0 THEN <<>> ELSE BEFixed(n \div 256, width - 1) \o <<n % 256>>

\* u64::to_be_bytes
U64BE(i) == BEFixed(i, 8)

\* keccak256 as an ideal hash: equal digests only for equal preimages
keccak256(b) == [digest_of |-> b]

\* PreimageKey::new(hash, type)
PreimageKey(hash, ty) == [hash |-> hash, ty |-> ty]

\* KeyValueStore::set: an upsert of the shared store
KvSet(store, key, value) ==
    [k \in DOMAIN store \cup {key} |-> IF k = key THEN value ELSE store[k]]

RECURSIVE ApplyWrites(_, _)
\* the kv_lock.set calls of one handler run, in order
ApplyWrites(store, ws) ==
    IF Len(ws) = 0 THEN store
    ELSE ApplyWrites(KvSet(store, Head(ws).key, Head(ws).value), Tail(ws))

\* CommsClient::get_exact into a buffer of len bytes: fails when the key is absent
\* or the stored value has another length
GetExact(store, key, len) ==
    IF key \notin DOMAIN store THEN Err("key not found")
    ELSE IF Len(store[key]) # len THEN Err("buffer length mismatch")
    ELSE Ok(store[key])

\* append_left_padded_biguint_be: a coordinate as 32 big-endian bytes
append_left_padded_biguint_be(vec, n) ==
    LET bytes == IF n = 0 THEN <<0>> ELSE BEBytes(n)
    IN vec \o Zeros(32 - Len(bytes)) \o bytes

RECURSIVE FieldElementOf(_)
\* Blob::to_polynomial_eval_form: a chunk of up to 32 bytes as a big-endian field
\* element, in a small prime field
FieldElementOf(bytes) ==
    IF Len(bytes) = 0 THEN 0
    ELSE (256 * FieldElementOf(SubSeq(bytes, 1, Len(bytes) - 1)) + bytes[Len(bytes)]) % 65521

RECURSIVE KzgEval(_, _)
\* the blob's polynomial, one coefficient per 32 bytes, evaluated at the SRS point
\* tau
KzgEval(blob, tau) ==
    IF Len(blob) = 0 THEN 0
    ELSE (FieldElementOf(SubSeq(blob, 1, Min(32, Len(blob))))
              + tau * KzgEval(SubSeq(blob, 33, Len(blob)), tau)) % 65521

\* KZG::commit_eval_form of the blob's polynomial: the point (x, y)
KzgCommit(blob) == [x |-> KzgEval(blob, 3), y |-> KzgEval(blob, 5)]

\* KZG::compute_blob_proof of the blob and its commitment: the point (x, y)
KzgProof(blob) == [x |-> KzgEval(blob, 7), y |-> KzgEval(blob, 11)]

(***************************************************************************)
(* The commitments that are hinted and the blobs the remote answers with    *)
(***************************************************************************)
Instances == {1, 2}

\* the blobs the remote may answer with
RemoteBlobs == {PatternBytes(1, 5), PatternBytes(2, 40), PatternBytes(1, 70)}

\* the blobs certificates were issued for
CertBlobs == {PatternBytes(1, 5), PatternBytes(2, 40)}

\* the certificate of blob with data_length len, as the proxy issues it
CertFor(blob, len) ==
    [blob_header |->
         Some([commitment |-> Some([x |-> append_left_padded_biguint_be(<<>>, KzgCommit(blob).x),
                                    y |-> append_left_padded_biguint_be(<<>>, KzgCommit(blob).y)]),
               data_length |-> len,
               blob_quorum_params |-> <<QuorumParamList[1]>>]),
     blob_verification_proof |->
         Some([batch_id |-> 84142, blob_index |-> 165, batch_metadata |-> None,
               inclusion_proof |-> B32(17), quorum_indexes |-> <<>>])]

CommitmentFor(blob, len) ==
    <<GENERIC_COMMITMENT_TYPE, EIGEN_DA_COMMITMENT_TYPE, CERT_V0>> \o EncodeBlobInfo(CertFor(blob, len))

\* a hint of no more than 32 bytes
ShortCommitment == <<GENERIC_COMMITMENT_TYPE, EIGEN_DA_COMMITMENT_TYPE, CERT_V0>>
                       \o EncodeBlobInfo([blob_header |-> None, blob_verification_proof |-> None])

\* a commitment whose certificate has no blob header
HeaderlessCommitment ==
    <<GENERIC_COMMITMENT_TYPE, EIGEN_DA_COMMITMENT_TYPE, CERT_V0>>
        \o EncodeBlobInfo([blob_header |-> None,
                           blob_verification_proof |->
                               Some([batch_id |-> 84142, blob_index |-> 165,
                                     batch_metadata |-> None, inclusion_proof |-> B32(17),
                                     quorum_indexes |-> <<>>])])

\* the certificate of a one-element blob behind the metadata bytes of another
\* op_type
ForeignCommitment == <<2, 0, 0>> \o EncodeBlobInfo(CertFor(PatternBytes(1, 5), 1))

\* the first 32 bytes of a commitment
TruncatedCommitment == SubSeq(CommitmentFor(PatternBytes(1, 5), 1), 1, 32)

HintCommitments ==
    {CommitmentFor(b, len) : b \in CertBlobs, len \in 0..MaxFieldElements}
        \cup {ShortCommitment, HeaderlessCommitment, ForeignCommitment, TruncatedCommitment}

\* the proxy's decode_commitment on each hinted commitment, evaluated once
ProxyAccepts == [c \in HintCommitments |-> decode_commitment(c).ok]

\* the certificate of a decoded BlobInfo: its header and its 32-byte commitment
\* coordinates must be present
CertificateFrom(d) ==
    IF ~d.ok THEN d
    ELSE IF d.v.blob_header = None THEN Err("blob header missing")
    ELSE IF d.v.blob_header[1].commitment = None THEN Err("commitment missing")
    ELSE IF Len(d.v.blob_header[1].commitment[1].x) # 32
              \/ Len(d.v.blob_header[1].commitment[1].y) # 32
         THEN Err("commitment coordinate is not 32 bytes")
    ELSE Ok([blob_header |->
                 [commitment |-> d.v.blob_header[1].commitment[1],
                  data_length |-> d.v.blob_header[1].data_length]])

\* eigen_da::BlobInfo::decode on commitment[3..]
CertificateDecode(bytes) == CertificateFrom(DecodeBlobInfo(bytes))

\* BlobInfo::decode on commitment[3..] of each hinted commitment, evaluated once
HintCertificate == [c \in HintCommitments |-> CertificateDecode(SubSeq(c, 4, Len(c)))]

\* EigenDABlobData::encode: the retrieved blob in 31-byte chunks, each behind a zero
\* lead byte, the last group holding only the remaining bytes
EigenDABlobDataEncode(blob) ==
    LET n == Len(blob)
        total == 32 * (n \div 31) + (IF n % 31 = 0 THEN 0 ELSE 1 + (n % 31))
    IN [j \in 1..total |->
           IF (j - 1) % 32 = 0 THEN 0 ELSE blob[31 * ((j - 1) \div 32) + ((j - 1) % 32)]]

\* EigenDABlobData::decode: the bytes after the lead byte of each 32-byte group
EigenDABlobDataDecode(blob) ==
    LET n == Len(blob)
        total == 31 * (n \div 32) + (IF n % 32 = 0 THEN 0 ELSE (n % 32) - 1)
    IN [j \in 1..total |-> blob[32 * ((j - 1) \div 31) + ((j - 1) % 31) + 2]]

\* a mutant of push_witness: the witness of the first field element of the blob only
push_witness_first_element(blob, srs) ==
    LET head == SubSeq(blob, 1, Min(Len(blob), 32))
    IN IF ~srs THEN [ok |-> FALSE, commitments |-> <<>>, proofs |-> <<>>]
       ELSE [ok |-> TRUE,
             commitments |-> <<append_left_padded_biguint_be(
                                 append_left_padded_biguint_be(<<>>, KzgCommit(head).x),
                                 KzgCommit(head).y)>>,
             proofs |-> <<append_left_padded_biguint_be(
                            append_left_padded_biguint_be(<<>>, KzgProof(head).x),
                            KzgProof(head).y)>>]

\* EigenDABlobWitness::push_witness on a new witness; srs tells whether the SRS
\* points could be loaded
push_witness(blob, srs) ==
    IF ~srs THEN [ok |-> FALSE, commitments |-> <<>>, proofs |-> <<>>]
    ELSE LET commitment == KzgCommit(blob)
             commitment_bytes ==
                 append_left_padded_biguint_be(
                     append_left_padded_biguint_be(<<>>, commitment.x), commitment.y)
             proof == KzgProof(blob)
             proof_bytes ==
                 append_left_padded_biguint_be(
                     append_left_padded_biguint_be(<<>>, proof.x), proof.y)
         IN [ok |-> TRUE, commitments |-> <<commitment_bytes>>, proofs |-> <<proof_bytes>>]

\* a mutant of HostBlobKey: the index written in little-endian order
HostBlobKeyLittleEndian(x, y, i) ==
    x \o y \o Zeros(24) \o [j \in 1..8 |-> U64BE(i)[9 - j]]

\* a mutant of HostBlobKey: the index is not written into the key
HostBlobKeyWithoutIndex(x, y, i) ==
    LET zero == Zeros(96)
        with_x == CopyFromSlice(zero, 0, 32, x).v
    IN CopyFromSlice(with_x, 32, 64, y).v

\* the handler's blob_key for index i: x, y, and i.to_be_bytes() at [88..]
HostBlobKey(x, y, i) ==
    LET zero == Zeros(96)
        with_x == CopyFromSlice(zero, 0, 32, x).v
        with_y == CopyFromSlice(with_x, 32, 64, y).v
    IN CopyFromSlice(with_y, 88, 96, U64BE(i)).v

\* a mutant of HostDataSlice: the slice without the zero fill on the right
HostDataSliceUnpadded(blob, i) ==
    LET start == i * 32
    IN IF start >= Len(blob) THEN Zeros(32) ELSE Slice(blob, start, Min(Len(blob), start + 32))

\* the handler's data_slice for index i of the encoded blob
HostDataSlice(blob, i) ==
    LET start == i * 32
        end == start + 32
        actual_end == Min(Len(blob), end)
    IN IF start >= Len(blob) THEN Zeros(32)
       ELSE CopyFromSlice(Zeros(32), 0, actual_end - start, Slice(blob, start, actual_end)).v

\* the two kv_lock.set calls of the handler's loop body: the key's preimage under the
\* Keccak256 key and the data slice under the GlobalGeneric key
ElementEntries(blob_key, data_slice) ==
    <<[key |-> PreimageKey(keccak256(blob_key), "Keccak256"), value |-> blob_key],
      [key |-> PreimageKey(keccak256(blob_key), "GlobalGeneric"), value |-> data_slice]>>

\* the handler's loop body for index i
HostElementWrites(x, y, blob, i) == ElementEntries(HostBlobKey(x, y, i), HostDataSlice(blob, i))

\* the kv_lock.set calls of the handler's loop over 0..blob_length
HostElementLoop(x, y, blob, blob_length) ==
    Flatten([j \in 1..blob_length |-> HostElementWrites(x, y, blob, j - 1)])

\* the four kv_lock.set calls that store the proof and the commitment witness
WitnessEntries(kzg_proof_key, kzg_commitment_key, witness) ==
    <<[key |-> PreimageKey(keccak256(kzg_proof_key), "Keccak256"), value |-> kzg_proof_key],
      [key |-> PreimageKey(keccak256(kzg_proof_key), "GlobalGeneric"),
       value |-> Flatten(witness.proofs)],
      [key |-> PreimageKey(keccak256(kzg_commitment_key), "Keccak256"),
       value |-> kzg_commitment_key],
      [key |-> PreimageKey(keccak256(kzg_commitment_key), "GlobalGeneric"),
       value |-> Flatten(witness.commitments)]>>

\* the proof key blob_key[..64] and the commitment key blob_key[..64] with a zero byte
HostWitnessWrites(x, y, witness) == WitnessEntries(x \o y, x \o y \o <<0>>, witness)

\* the handler after its loop: push_witness, then the witness entries
HostStoreWitness(x, y, elements, witness) ==
    IF ~witness.ok THEN [status |-> "failed", why |-> "witness", writes |-> elements]
    ELSE [status |-> "ok", why |-> "", writes |-> elements \o HostWitnessWrites(x, y, witness)]

\* the handler once the blob is encoded: the size assertion, the loop, the witness
HostStoreBlob(x, y, blob_length, eigenda_blob, blob, srs) ==
    IF Len(eigenda_blob) > blob_length * BYTES_PER_FIELD_ELEMENT
    THEN [status |-> "failed", why |-> "blob size", writes |-> <<>>]
    ELSE HostStoreWitness(x, y, HostElementLoop(x, y, eigenda_blob, blob_length),
                          push_witness(blob, srs))

\* the handler once the certificate is decoded
HostStoreCert(cert, blob, srs) ==
    IF ~cert.ok THEN [status |-> "failed", why |-> "decode", writes |-> <<>>]
    ELSE HostStoreBlob(cert.v.blob_header.commitment.x, cert.v.blob_header.commitment.y,
                       cert.v.blob_header.data_length, EigenDABlobDataEncode(blob), blob, srs)

\* the EigenDa arm of fetch_hint once the blob is fetched and the write lock is
\* held: the handler's result and the kv_lock.set calls it made, in order
HostHandle(commitment, blob, srs) == HostStoreCert(HintCertificate[commitment], blob, srs)

\* validate_commitment_length
validate_commitment_length(commitment) ==
    IF Len(commitment) <= MIN_HEADER_SIZE + METADATA_SIZE THEN Err("InvalidLength") ELSE Ok(<<>>)

\* BlobInfo::decode(..).map_err(|_| InvalidLength)
MapInvalidLength(d) == IF d.ok THEN d ELSE Err("InvalidLength")

\* decode_blob_info_from_commitment
decode_blob_info_from_commitment(commitment) ==
    IF ~validate_commitment_length(commitment).ok THEN Err("InvalidLength")
    ELSE MapInvalidLength(HintCertificate[commitment])

\* create_blob_key_template
create_blob_key_template(blob_info) ==
    LET zero == Zeros(BLOB_KEY_SIZE)
        with_x == CopyFromSlice(zero, COMMITMENT_X_OFFSET, COMMITMENT_X_OFFSET + FIELD_ELEMENT_SIZE,
                                blob_info.blob_header.commitment.x).v
    IN CopyFromSlice(with_x, COMMITMENT_Y_OFFSET, COMMITMENT_Y_OFFSET + FIELD_ELEMENT_SIZE,
                     blob_info.blob_header.commitment.y).v

\* a mutant of update_blob_key_with_index: the index written right behind y
update_blob_key_with_index_at_64(blob_key, field_index) ==
    CopyFromSlice(blob_key, 64, 72, U64BE(field_index)).v

\* update_blob_key_with_index
update_blob_key_with_index(blob_key, field_index) ==
    CopyFromSlice(blob_key, FIELD_INDEX_OFFSET, BLOB_KEY_SIZE, U64BE(field_index)).v

\* calculate_blob_key_hash
calculate_blob_key_hash(blob_key) == keccak256(blob_key)

\* create_kzg_proof_key: the first 64 bytes of the blob key
create_kzg_proof_key(blob_key) ==
    CopyFromSlice(Zeros(KZG_PROOF_KEY_SIZE), 0, KZG_PROOF_KEY_SIZE,
                  SubSeq(blob_key, 1, KZG_PROOF_KEY_SIZE)).v

\* create_kzg_commitment_key: the first 64 bytes of the blob key and a zero byte
create_kzg_commitment_key(blob_key) ==
    [CopyFromSlice(Zeros(KZG_COMMITMENT_KEY_SIZE), 0, KZG_PROOF_KEY_SIZE,
                   SubSeq(blob_key, 1, KZG_PROOF_KEY_SIZE)).v
        EXCEPT ![KZG_PROOF_KEY_SIZE + 1] = 0]

\* calculate_blob_size_bytes
calculate_blob_size_bytes(field_element_count) == field_element_count * BYTES_PER_FIELD_ELEMENT

RECURSIVE ReadLoop(_, _, _, _, _)
\* a mutant of ReadFieldElement: a failed read leaves the element's bytes zero
ReadFieldElementZeroFill(store, blob_key, field_index, field_element_count, blob, r) ==
    ReadLoop(store, blob_key, field_index + 1, field_element_count,
             CopyFromSlice(blob, field_index * FIELD_ELEMENT_SIZE,
                           (field_index + 1) * FIELD_ELEMENT_SIZE,
                           IF r.ok THEN r.v ELSE Zeros(FIELD_ELEMENT_SIZE)).v)

\* the loop body after get_exact returned r: the error is returned, or the element
\* is copied into the blob and the loop goes on
ReadFieldElement(store, blob_key, field_index, field_element_count, blob, r) ==
    IF ~r.ok THEN r
    ELSE ReadLoop(store, blob_key, field_index + 1, field_element_count,
                  CopyFromSlice(blob, field_index * FIELD_ELEMENT_SIZE,
                                (field_index + 1) * FIELD_ELEMENT_SIZE, r.v).v)

\* the loop body once the key holds the index: get_exact under the GlobalGeneric key
ReadAtKey(store, blob_key, field_index, field_element_count, blob) ==
    ReadFieldElement(store, blob_key, field_index, field_element_count, blob,
                     GetExact(store, PreimageKey(calculate_blob_key_hash(blob_key), "GlobalGeneric"),
                              FIELD_ELEMENT_SIZE))

\* the for loop of OracleEigenDaProvider::get_blob from field_index on
ReadLoop(store, blob_key, field_index, field_element_count, blob) ==
    IF field_index >= field_element_count THEN Ok(blob)
    ELSE ReadAtKey(store, update_blob_key_with_index(blob_key, field_index), field_index,
                   field_element_count, blob)

\* get_blob after the loop: the blob is decoded
GetBlobDecode(read) ==
    IF ~read.ok THEN [ok |-> FALSE, blob |-> <<>>, out |-> <<>>]
    ELSE [ok |-> TRUE, blob |-> read.v, out |-> EigenDABlobDataDecode(read.v)]

\* get_blob once the certificate is decoded: the buffer, the key template, the loop
GetBlobRead(store, cert) ==
    IF ~cert.ok THEN [ok |-> FALSE, blob |-> <<>>, out |-> <<>>]
    ELSE GetBlobDecode(ReadLoop(store, create_blob_key_template(cert.v), 0,
                                cert.v.blob_header.data_length,
                                Zeros(calculate_blob_size_bytes(cert.v.blob_header.data_length))))

\* OracleEigenDaProvider::get_blob after the hint was sent: [ok, blob, out], blob
\* the reassembled buffer and out the decoded payload
ClientGetBlob(store, commitment) ==
    GetBlobRead(store, decode_blob_info_from_commitment(commitment))

\* what get_exact leaves in the buffer out_data and what get_blob returns
SdkRead(out_data, r) ==
    IF ~r.ok THEN [ok |-> FALSE, panic |-> FALSE, blob |-> out_data, out |-> <<>>]
    ELSE [ok |-> TRUE, panic |-> FALSE, blob |-> r.v, out |-> r.v]

\* get_blob of the provider of proof-sdk once the certificate is decoded: one get_exact
\* under the GlobalGeneric key of x, y and a zero byte, into a buffer of blob_len bytes
SdkGetBlobRead(store, cert, blob_len) ==
    IF ~cert.ok THEN [ok |-> FALSE, panic |-> TRUE, blob |-> <<>>, out |-> <<>>]
    ELSE SdkRead(Zeros(blob_len),
                 GetExact(store,
                          PreimageKey(keccak256(cert.v.blob_header.commitment.x
                                                    \o cert.v.blob_header.commitment.y \o <<0>>),
                                      "GlobalGeneric"),
                          blob_len))

\* OracleEigenDaProvider::get_blob of proof-sdk after the hint was sent
SdkGetBlob(store, commitment, blob_len) ==
    IF Len(commitment) <= 32 + 3
    THEN [ok |-> FALSE, panic |-> FALSE, blob |-> <<>>, out |-> <<>>]
    ELSE SdkGetBlobRead(store, HintCertificate[commitment], blob_len)

(***************************************************************************)
(* The hints and reads of the derivation instances that share one host      *)
(***************************************************************************)
NoHint == [commitment |-> <<>>, blob |-> <<>>, status |-> "none", why |-> "", writes |-> <<>>]

NoResult == [ok |-> FALSE, blob |-> <<>>, out |-> <<>>, after |-> NoHint]

OracleIdle ==
    /\ kv = <<>>
    /\ kvLock = 0
    /\ pc = [t \in Instances |-> "idle"]
    /\ hintData = [t \in Instances |-> <<>>]
    /\ hostBlob = [t \in Instances |-> <<>>]
    /\ hintResult = [t \in Instances |-> "none"]
    /\ getBlobResult = [t \in Instances |-> NoResult]
    /\ lastHint = NoHint
    /\ hintCount = 0

Init ==
    /\ OracleIdle
    /\ srsLoaded \in BOOLEAN
    /\ codecPc = "idle" /\ codecData = <<>> /\ codecPadded = <<>> /\ codecOut = <<>>
    /\ codecIndex = [hi |-> 0, lo |-> 0]
    /\ certPc = "idle" /\ certValue = <<>> /\ certBytes = <<>> /\ certDecoded = Err("")
    /\ certAltered = Unaltered
    /\ ProxyIdle /\ SourceIdle /\ NetIdle /\ PipelineIdle

\* a length check that rejects the empty hint only
HintLengthNonEmpty(data) == Len(data) > 0

\* ensure!(hint.data.len() > 32, "Invalid hint data length")
HintLengthValid(data) == Len(data) > 32

\* a handler that takes the write lock of the store before it fetches the blob
SendHintUnderLock(t, c) ==
    /\ pc[t] = "idle"
    /\ hintCount < MaxHints
    /\ hintCount' = hintCount + 1
    /\ hintData' = [hintData EXCEPT ![t] = c]
    /\ IF HintLengthValid(c)
       THEN /\ kvLock = 0 /\ kvLock' = t
            /\ pc' = [pc EXCEPT ![t] = "fetching"]
            /\ hintResult' = [hintResult EXCEPT ![t] = "none"]
       ELSE /\ pc' = [pc EXCEPT ![t] = "hinted"] /\ UNCHANGED kvLock
            /\ hintResult' = [hintResult EXCEPT ![t] = "Invalid hint data length"]
    /\ UNCHANGED <<kv, hostBlob, getBlobResult, lastHint, srsLoaded>>
    /\ UNCHANGED <<codecVars, certVars, derivationVars>>

\* get_blob sends its hint; fetch_hint checks the length of the hint data
SendHint(t, c) ==
    /\ pc[t] = "idle"
    /\ hintCount < MaxHints
    /\ hintCount' = hintCount + 1
    /\ hintData' = [hintData EXCEPT ![t] = c]
    /\ IF HintLengthValid(c)
       THEN /\ pc' = [pc EXCEPT ![t] = "fetching"]
            /\ hintResult' = [hintResult EXCEPT ![t] = "none"]
       ELSE /\ pc' = [pc EXCEPT ![t] = "hinted"]
            /\ hintResult' = [hintResult EXCEPT ![t] = "Invalid hint data length"]
    /\ UNCHANGED <<kv, kvLock, hostBlob, getBlobResult, lastHint, srsLoaded>>
    /\ UNCHANGED <<codecVars, certVars, derivationVars>>

\* providers.eigen_da.get_blob answers with a blob
FetchBlob(t, b) ==
    /\ pc[t] = "fetching"
    /\ ProxyAccepts[hintData[t]]
    /\ hostBlob' = [hostBlob EXCEPT ![t] = b]
    /\ pc' = [pc EXCEPT ![t] = "waiting_lock"]
    /\ UNCHANGED <<kv, kvLock, hintData, hintResult, getBlobResult, lastHint, srsLoaded, hintCount>>
    /\ UNCHANGED <<codecVars, certVars, derivationVars>>

\* providers.eigen_da.get_blob fails: the commitment does not decode, the blob is
\* not found, the request times out or the proxy answers another status
FetchFail(t) ==
    /\ pc[t] = "fetching"
    /\ pc' = [pc EXCEPT ![t] = "hinted"]
    /\ hintResult' = [hintResult EXCEPT ![t] = "failed"]
    /\ UNCHANGED <<kv, kvLock, hintData, hostBlob, getBlobResult, lastHint, srsLoaded, hintCount>>
    /\ UNCHANGED <<codecVars, certVars, derivationVars>>

\* kv.write().await returns the write guard
AcquireLock(t) ==
    /\ pc[t] = "waiting_lock"
    /\ kvLock = 0
    /\ kvLock' = t
    /\ pc' = [pc EXCEPT ![t] = "locked"]
    /\ UNCHANGED <<kv, hintData, hostBlob, hintResult, getBlobResult, lastHint, srsLoaded, hintCount>>
    /\ UNCHANGED <<codecVars, certVars, derivationVars>>

\* the rest of the EigenDa arm, under the write lock, up to the guard's drop
HostWrite(t) ==
    /\ pc[t] = "locked"
    /\ LET r == HostHandle(hintData[t], hostBlob[t], srsLoaded)
       IN /\ kv' = ApplyWrites(kv, r.writes)
          /\ hintResult' = [hintResult EXCEPT ![t] = r.status]
          /\ lastHint' = [commitment |-> hintData[t], blob |-> hostBlob[t],
                          status |-> r.status, why |-> r.why, writes |-> r.writes]
    /\ kvLock' = 0
    /\ pc' = [pc EXCEPT ![t] = "hinted"]
    /\ UNCHANGED <<hintData, hostBlob, getBlobResult, srsLoaded, hintCount>>
    /\ UNCHANGED <<codecVars, certVars, derivationVars>>

\* get_blob decodes the certificate, reads the field elements and decodes the blob
ClientRead(t) ==
    /\ pc[t] = "hinted"
    /\ LET r == ClientGetBlob(kv, hintData[t])
       IN getBlobResult' = [getBlobResult EXCEPT ![t] =
                                [ok |-> r.ok, blob |-> r.blob, out |-> r.out, after |-> lastHint]]
    /\ pc' = [pc EXCEPT ![t] = "done"]
    /\ UNCHANGED <<kv, kvLock, hintData, hostBlob, hintResult, lastHint, srsLoaded, hintCount>>
    /\ UNCHANGED <<codecVars, certVars, derivationVars>>

\* the blob lengths the caller of the provider of proof-sdk asks for: that of the
\* shortest blob and that of a commitment's two coordinates
BlobLens == {Len(PatternBytes(1, 5)), 64}

\* get_blob of the provider of proof-sdk decodes the certificate and reads the blob
\* with one get_exact into a buffer of blob_len bytes
SdkClientRead(t, blob_len) ==
    /\ pc[t] = "hinted"
    /\ LET r == SdkGetBlob(kv, hintData[t], blob_len)
       IN /\ getBlobResult' = [getBlobResult EXCEPT ![t] =
                                  [ok |-> r.ok, blob |-> r.blob, out |-> r.out,
                                   after |-> lastHint]]
          /\ pc' = [pc EXCEPT ![t] = IF r.panic THEN "sdk_panicked" ELSE "sdk_done"]
    /\ UNCHANGED <<kv, kvLock, hintData, hostBlob, hintResult, lastHint, srsLoaded, hintCount>>
    /\ UNCHANGED <<codecVars, certVars, derivationVars>>

\* the caller of get_blob takes the result; the instance is free for its next call
Return(t) ==
    /\ pc[t] \in {"done", "sdk_done"}
    /\ pc' = [pc EXCEPT ![t] = "idle"]
    /\ hintData' = [hintData EXCEPT ![t] = <<>>]
    /\ hostBlob' = [hostBlob EXCEPT ![t] = <<>>]
    /\ hintResult' = [hintResult EXCEPT ![t] = "none"]
    /\ getBlobResult' = [getBlobResult EXCEPT ![t] = NoResult]
    /\ UNCHANGED <<kv, kvLock, lastHint, srsLoaded, hintCount>>
    /\ UNCHANGED <<codecVars, certVars, derivationVars>>

Next ==
    \E t \in Instances :
        \/ \E c \in HintCommitments : SendHint(t, c)
        \/ \E b \in RemoteBlobs : FetchBlob(t, b)
        \/ FetchFail(t)
        \/ AcquireLock(t)
        \/ HostWrite(t)
        \/ ClientRead(t)
        \/ \E blob_len \in BlobLens : SdkClientRead(t, blob_len)
        \/ Return(t)

Spec == Init /\ [][Next]_vars

\* a field index of 64 bits: hi * 2^59 + lo, with lo below 2^59
U64Index(hi, lo) == [hi |-> hi, lo |-> lo]

\* (field_index as usize) * field_element_size for a field_element_size of 32 = 2^5 and a
\* usize of 64 bits: the product is hi * 2^64 + lo * 32, which does not fit when hi > 0;
\* a build with overflow checks panics then, a build without keeps lo * 32
FieldStart(field_index, overflow_checks) ==
    IF field_index.hi > 0 /\ overflow_checks THEN [panic |-> TRUE, v |-> 0]
    ELSE [panic |-> FALSE, v |-> field_index.lo * FIELD_ELEMENT_SIZE]

\* extract_field_element(blob_data, field_index, 32) of utils.rs
extract_field_element(blob_data, field_index, overflow_checks) ==
    LET field_start == FieldStart(field_index, overflow_checks)
        field_end == field_start.v + FIELD_ELEMENT_SIZE
        available_end == Min(Len(blob_data), field_end)
    IN IF field_start.panic THEN [panic |-> TRUE, out |-> <<>>]
       ELSE IF field_start.v >= Len(blob_data)
       THEN [panic |-> FALSE, out |-> Zeros(FIELD_ELEMENT_SIZE)]
       ELSE [panic |-> FALSE,
             out |-> CopyFromSlice(Zeros(FIELD_ELEMENT_SIZE), 0, available_end - field_start.v,
                                   Slice(blob_data, field_start.v, available_end)).v]

CodecIdle ==
    /\ codecPc = "idle"
    /\ codecIndex = U64Index(0, 0)
    /\ codecData = <<>>
    /\ codecPadded = <<>>
    /\ codecOut = <<>>

CertIdle ==
    /\ certPc = "idle"
    /\ certValue = <<>>
    /\ certBytes = <<>>
    /\ certDecoded = Err("")
    /\ certAltered = Unaltered

InitCodec ==
    /\ codecPc = "input"
    /\ codecIndex = U64Index(0, 0)
    /\ codecData \in CodecInputs
    /\ codecPadded = <<>>
    /\ codecOut = <<>>
    /\ CertIdle
    /\ OracleIdle /\ srsLoaded = TRUE
    /\ ProxyIdle /\ SourceIdle /\ NetIdle /\ PipelineIdle

\* a caller runs convert_by_padding_empty_byte on its payload
Pad ==
    /\ codecPc = "input"
    /\ LET r == convert_by_padding_empty_byte(codecData)
       IN /\ codecPc' = IF r.panic THEN "panicked" ELSE "padded"
          /\ codecPadded' = r.out
    /\ UNCHANGED <<codecIndex, codecData, codecOut>>
    /\ UNCHANGED <<certVars, oracleVars, derivationVars>>

\* the reader runs remove_empty_byte_from_padded_bytes on the padded bytes
Unpad ==
    /\ codecPc = "padded"
    /\ LET r == remove_empty_byte_from_padded_bytes(codecPadded)
       IN /\ codecPc' = IF r.panic THEN "panicked" ELSE "unpadded"
          /\ codecOut' = r.out
    /\ UNCHANGED <<codecIndex, codecData, codecPadded>>
    /\ UNCHANGED <<certVars, oracleVars, derivationVars>>

\* a reader runs remove_empty_byte_from_padded_bytes on bytes it received, as retrieve_blob
\* does with the data of the reply
UnpadReceived ==
    /\ codecPc = "input"
    /\ LET r == remove_empty_byte_from_padded_bytes(codecData)
       IN /\ codecPc' = IF r.panic THEN "receive_panicked" ELSE "received"
          /\ codecOut' = r.out
    /\ UNCHANGED <<codecIndex, codecData, codecPadded>>
    /\ UNCHANGED <<certVars, oracleVars, derivationVars>>

\* a caller runs extract_field_element on a blob and a field index, in a build with or
\* without overflow checks
ExtractFieldElement(field_index, overflow_checks) ==
    /\ codecPc = "input"
    /\ LET r == extract_field_element(codecData, field_index, overflow_checks)
       IN /\ codecPc' = IF r.panic THEN "extract_panicked" ELSE "extracted"
          /\ codecOut' = r.out
    /\ codecIndex' = field_index
    /\ UNCHANGED <<codecData, codecPadded>>
    /\ UNCHANGED <<certVars, oracleVars, derivationVars>>

\* the field indexes handed to extract_field_element: small ones and ones of 2^59 and more
FieldIndexes == {U64Index(hi, lo) : hi \in 0..1, lo \in 0..MaxFieldIndex}

NextCodec ==
    \/ Pad
    \/ Unpad
    \/ UnpadReceived
    \/ \E field_index \in FieldIndexes, overflow_checks \in BOOLEAN :
           ExtractFieldElement(field_index, overflow_checks)

SpecCodec == InitCodec /\ [][NextCodec]_vars

InitCertSpec ==
    InitCert /\ CodecIdle /\ OracleIdle /\ srsLoaded = TRUE /\ ProxyIdle /\ SourceIdle
        /\ NetIdle /\ PipelineIdle

NextCert ==
    \/ RlpEncodeCert
    \/ RlpDecodeCert
    \/ EncodeCommitment
    \/ DecodeCommitment
    \/ \E prefix \in ReceivedPrefixes, cut \in {0, 1, 2, 3 + Len(certBytes)} :
           DecodeReceived(prefix, cut)
    \/ \E record \in Records, delta \in {-1, 1} : DecodeAltered(record, delta)

SpecCert == InitCertSpec /\ [][NextCert]_vars

\* C2: for every byte string b, unpad(pad(b)) returns normally and equals b:
\* the run never panics, and once both transforms have run the output is the input.
PadRoundTrip ==
    /\ codecPc # "panicked"
    /\ codecPc = "unpadded" => codecOut = codecData

\* C3: for every BlobInfo value v, RLP-decoding the RLP encoding of v succeeds
\* and yields a value equal to v in every field.
RlpRoundTrip ==
    certPc = "rlp_decoded" => certDecoded.ok /\ certDecoded.v = certValue

\* C4: encode_commitment(v) is [0x01, 0x00, 0x00] followed by the RLP encoding of v
\* as a BlobInfo record, and decode_commitment of it succeeds and returns v.
CommitmentRoundTrip ==
    /\ certPc = "commitment" => certBytes = <<1, 0, 0>> \o EncodeBlobInfo(certValue)
    /\ certPc = "commitment_decoded" => certDecoded.ok /\ certDecoded.v = certValue

(***************************************************************************)
(* The vocabulary of the statements about the oracle protocol               *)
(***************************************************************************)
\* the index i < 65536 as width big-endian bytes
IndexBytes(i, width) ==
    [j \in 1..width |-> IF j = width THEN i % 256
                        ELSE IF j = width - 1 THEN (i \div 256) % 256
                        ELSE 0]

\* a coordinate n < 65536 as a 32-byte big-endian integer
Coordinate(n) == IndexBytes(n, 32)

\* b with zero bytes on its right up to n bytes
PadRight(b, n) == b \o [j \in 1..(n - Len(b)) |-> 0]

\* the key a preimage is stored under
KeyOf(preimage, ty) == [hash |-> [digest_of |-> preimage], ty |-> ty]

\* the header (commitment and data_length) of the certificate in commitment c
HeaderOf(c) == HintCertificate[c].v.blob_header

\* the handler's run for commitment c completed successfully
HandledOk(h) == h.status = "ok"

\* the preimage of the element key of index i, as the host and the client build it
ElementPreimage(header, i) == header.commitment.x \o header.commitment.y \o IndexBytes(i, 32)

\* every element key of the certificate holds exactly 32 bytes in the store
ElementsReadable(store, header) ==
    \A i \in 0..(header.data_length - 1) :
        /\ KeyOf(ElementPreimage(header, i), "GlobalGeneric") \in DOMAIN store
        /\ Len(store[KeyOf(ElementPreimage(header, i), "GlobalGeneric")]) = 32

\* the result of get_blob holds the encoded blob, zero bytes on its right up to
\* data_length * 32 bytes
ReassembledIs(result, header, blob) ==
    /\ result.ok
    /\ result.blob = PadRight(EigenDABlobDataEncode(blob), 32 * header.data_length)

\* get_blob of instance t has returned, and the last handler run before its reads
\* was the successful one for its commitment
ReadAfterHandledOk(t) ==
    /\ pc[t] = "done"
    /\ HandledOk(getBlobResult[t].after)
    /\ getBlobResult[t].after.commitment = hintData[t]

\* C1: after the host's handler has completed successfully for a commitment with
\* data_length L, each of the L reads of the client's get_blob finds an entry of
\* exactly 32 bytes, and the L * 32 bytes it reassembles are the host's encoded blob
\* with zero bytes on its right.
ClientReassemblesHostBlob ==
    \A t \in Instances :
        ReadAfterHandledOk(t) =>
            /\ ElementsReadable(kv, HeaderOf(hintData[t]))
            /\ ReassembledIs(getBlobResult[t], HeaderOf(hintData[t]), getBlobResult[t].after.blob)

\* a client has reassembled two field elements, the second of them zero-filled
ClientReassembledPaddedBlob ==
    \E t \in Instances :
        /\ ReadAfterHandledOk(t)
        /\ getBlobResult[t].ok
        /\ HeaderOf(hintData[t]).data_length = 2
        /\ Len(EigenDABlobDataEncode(getBlobResult[t].after.blob)) \in 33..63
        /\ Len(getBlobResult[t].blob) = 64

\* C5: over any sequence or interleaving of hints, a (hash, type) key of the
\* host's store that already holds a value is never set to a different value.
StoreIsWriteOnce == [][\A k \in DOMAIN kv : kv'[k] = kv[k]]_vars

\* some element key of the certificate holds nothing in the store
ElementMissing(store, header) ==
    \E i \in 0..(header.data_length - 1) :
        KeyOf(ElementPreimage(header, i), "GlobalGeneric") \notin DOMAIN store

\* get_blob of instance t reads the elements of a certificate that decodes
ReadsElements(t) ==
    /\ validate_commitment_length(hintData[t]).ok
    /\ HintCertificate[hintData[t]].ok

\* C6: when get_blob requests a field-element key that the host never wrote, it
\* returns an error to its caller and no blob, never a blob whose missing element
\* is zero or empty data.
MissingElementIsAnError ==
    [][\A t \in Instances :
         (pc[t] = "hinted" /\ pc'[t] = "done" /\ ReadsElements(t)
             /\ ElementMissing(kv, HeaderOf(hintData[t])))
            => (~getBlobResult'[t].ok /\ getBlobResult'[t].blob = <<>>
                  /\ getBlobResult'[t].out = <<>>)]_vars

\* get_blob has returned an error on a certificate whose first element is stored
\* and whose second element was never written
ReadFailedOnMissingElement ==
    \E t \in Instances :
        /\ pc[t] = "done"
        /\ ReadsElements(t)
        /\ HeaderOf(hintData[t]).data_length = 2
        /\ KeyOf(ElementPreimage(HeaderOf(hintData[t]), 0), "GlobalGeneric") \in DOMAIN kv
        /\ KeyOf(ElementPreimage(HeaderOf(hintData[t]), 1), "GlobalGeneric") \notin DOMAIN kv
        /\ ~getBlobResult[t].ok

\* the commitment recomputed from the blob, as the 64 bytes of its coordinates
RecomputedCommitment(blob) == Coordinate(KzgCommit(blob).x) \o Coordinate(KzgCommit(blob).y)

\* the handler ran on hint h with the SRS loaded, and the commitment it recomputed
\* from the retrieved blob is not the certificate's
CommitmentMismatch(h) ==
    /\ h.status # "none"
    /\ srsLoaded
    /\ HintCertificate[h.commitment].ok
    /\ RecomputedCommitment(h.blob)
           # HeaderOf(h.commitment).commitment.x \o HeaderOf(h.commitment).commitment.y

\* C7: when the commitment the host recomputes from the retrieved blob differs from
\* the certificate's (x, y), the hint fails and the store receives no field-element,
\* proof or commitment entry for that certificate.
MismatchFailsTheHint ==
    CommitmentMismatch(lastHint) => (lastHint.status = "failed" /\ lastHint.writes = <<>>)

\* x, y, pad zero bytes and the 8 big-endian bytes of i
PaddedElementPreimage(header, i, pad) ==
    header.commitment.x \o header.commitment.y \o [j \in 1..pad |-> 0] \o IndexBytes(i, 8)

\* the preimages the host hashed in writes and the client derives for the header:
\* element i of x, y, pad zero bytes and the index; the proof key of x and y; the
\* commitment key of x, y and a zero byte
KeyPreimagesAre(writes, header, pad) ==
    /\ Len(writes) = 2 * header.data_length + 4
    /\ \A i \in 0..(header.data_length - 1) :
           /\ writes[2 * i + 1].value = PaddedElementPreimage(header, i, pad)
           /\ writes[2 * i + 1].key = KeyOf(PaddedElementPreimage(header, i, pad), "Keccak256")
           /\ writes[2 * i + 2].key = KeyOf(PaddedElementPreimage(header, i, pad), "GlobalGeneric")
           /\ update_blob_key_with_index(create_blob_key_template([blob_header |-> header]), i)
                  = PaddedElementPreimage(header, i, pad)
    /\ writes[2 * header.data_length + 1].value = header.commitment.x \o header.commitment.y
    /\ Len(writes[2 * header.data_length + 1].value) = 64
    /\ writes[2 * header.data_length + 1].key
           = KeyOf(header.commitment.x \o header.commitment.y, "Keccak256")
    /\ create_kzg_proof_key(create_blob_key_template([blob_header |-> header]))
           = header.commitment.x \o header.commitment.y
    /\ writes[2 * header.data_length + 3].value
           = header.commitment.x \o header.commitment.y \o <<0>>
    /\ Len(writes[2 * header.data_length + 3].value) = 65
    /\ writes[2 * header.data_length + 3].key
           = KeyOf(header.commitment.x \o header.commitment.y \o <<0>>, "Keccak256")
    /\ create_kzg_commitment_key(create_blob_key_template([blob_header |-> header]))
           = header.commitment.x \o header.commitment.y \o <<0>>

\* C8 as stated: the preimage of the key of field element i is exactly x, y and the
\* big-endian bytes of i, the proof-key preimage is x and y (64 bytes), and the
\* commitment-key preimage is x, y and one zero byte (65 bytes).
KeyPreimagesUnpadded ==
    HandledOk(lastHint) => KeyPreimagesAre(lastHint.writes, HeaderOf(lastHint.commitment), 0)

\* C8 as amended: the preimage of the key of field element i is the 96 bytes x, y,
\* 24 zero bytes and the 8 big-endian bytes of i; the proof-key preimage is x and y
\* (64 bytes), and the commitment-key preimage is x, y and one zero byte (65 bytes).
KeyPreimagesPadded ==
    HandledOk(lastHint) => KeyPreimagesAre(lastHint.writes, HeaderOf(lastHint.commitment), 24)

\* a handler run has stored the keys of the elements 0 and 1
HandledTwoElements ==
    /\ HandledOk(lastHint)
    /\ HeaderOf(lastHint.commitment).data_length = 2
    /\ Len(lastHint.writes) = 8

\* byte j of field element i of the encoded blob, zero where the blob has ended
ElementByte(encoded, i, j) == IF 32 * i + j <= Len(encoded) THEN encoded[32 * i + j] ELSE 0

\* the store holds both entries of every element of the certificate, and writes
\* holds no entry of an element from data_length on
ElementEntriesAre(store, writes, header, encoded) ==
    /\ \A i \in 0..(header.data_length - 1) :
           /\ KeyOf(ElementPreimage(header, i), "Keccak256") \in DOMAIN store
           /\ store[KeyOf(ElementPreimage(header, i), "Keccak256")] = ElementPreimage(header, i)
           /\ KeyOf(ElementPreimage(header, i), "GlobalGeneric") \in DOMAIN store
           /\ store[KeyOf(ElementPreimage(header, i), "GlobalGeneric")]
                  = [j \in 1..32 |-> ElementByte(encoded, i, j)]
    /\ \A i \in header.data_length..(header.data_length + MaxFieldElements) :
           \A j \in 1..Len(writes) :
               writes[j].key.hash # [digest_of |-> ElementPreimage(header, i)]

\* C9: after a successful hint for a certificate with data_length L, for every i in
\* 0..L the store holds under the element key of i a Keccak256 entry with the key
\* preimage and a GlobalGeneric entry of exactly 32 bytes, the bytes [32i, 32i + 32)
\* of the encoded blob with zero bytes where it ends early; no element entry is
\* written for an index from L on.
ElementEntriesStored ==
    HandledOk(lastHint) =>
        ElementEntriesAre(kv, lastHint.writes, HeaderOf(lastHint.commitment),
                          EigenDABlobDataEncode(lastHint.blob))

\* a handler run has stored two elements of an encoded blob that ends inside the
\* second
HandledPartialElement ==
    /\ HandledOk(lastHint)
    /\ HeaderOf(lastHint.commitment).data_length = 2
    /\ Len(EigenDABlobDataEncode(lastHint.blob)) \in 33..63
    /\ KeyOf(ElementPreimage(HeaderOf(lastHint.commitment), 1), "GlobalGeneric") \in DOMAIN kv

\* the store holds the proof and the commitment of the whole blob under the key of
\* x and y and under the key of x, y and a zero byte
WitnessEntriesAre(store, header, blob) ==
    /\ KeyOf(header.commitment.x \o header.commitment.y, "GlobalGeneric") \in DOMAIN store
    /\ store[KeyOf(header.commitment.x \o header.commitment.y, "GlobalGeneric")]
           = Coordinate(KzgProof(blob).x) \o Coordinate(KzgProof(blob).y)
    /\ KeyOf(header.commitment.x \o header.commitment.y \o <<0>>, "GlobalGeneric")
           \in DOMAIN store
    /\ store[KeyOf(header.commitment.x \o header.commitment.y \o <<0>>, "GlobalGeneric")]
           = Coordinate(KzgCommit(blob).x) \o Coordinate(KzgCommit(blob).y)

\* C10: after a successful hint, the store holds one proof witness under the key
\* built from x and y and one commitment witness under the key built from x, y and a
\* zero byte, both computed over the entire retrieved blob.
WitnessEntriesStored ==
    HandledOk(lastHint) => WitnessEntriesAre(kv, HeaderOf(lastHint.commitment), lastHint.blob)

\* a handler run has stored the witnesses of a blob longer than one field element
HandledLongBlobWitness ==
    /\ HandledOk(lastHint)
    /\ Len(lastHint.blob) > 32
    /\ KeyOf(HeaderOf(lastHint.commitment).commitment.x
                 \o HeaderOf(lastHint.commitment).commitment.y, "GlobalGeneric") \in DOMAIN kv

\* the commitment starts with the metadata bytes op_type 0x01, da_provider 0x00 and
\* cert_version 0x00
HasMetadataPrefix(commitment) ==
    Len(commitment) >= 3 /\ SubSeq(commitment, 1, 3) = <<1, 0, 0>>

\* C11: decode_commitment returns an error for every input shorter than 3 bytes and
\* for every input whose first three bytes are not exactly [0x01, 0x00, 0x00].
DecodeCommitmentRejectsMetadata ==
    (certPc = "received_decoded" /\ ~HasMetadataPrefix(certBytes)) => ~certDecoded.ok

\* decode_commitment has rejected a commitment of a foreign op_type whose bytes after
\* the metadata are the RLP encoding of a BlobInfo that decodes
RejectedForeignCommitment ==
    /\ certPc = "received_decoded"
    /\ Len(certBytes) > 3
    /\ SubSeq(certBytes, 1, 3) = <<2, 0, 0>>
    /\ DecodeBlobInfo(SubSeq(certBytes, 4, Len(certBytes))).ok
    /\ ~certDecoded.ok

\* C12: every path that decodes a certificate out of a commitment returns a decode
\* error when the metadata bytes are not op_type 0x01, da_provider 0x00 and
\* cert_version 0x00: decode_blob_info_from_commitment in the client's get_blob, the
\* host's hint handler and decode_commitment.
MetadataCheckedOnEveryPath ==
    /\ \A t \in Instances :
           (pc[t] = "done" /\ ~HasMetadataPrefix(hintData[t]))
               => /\ ~decode_blob_info_from_commitment(hintData[t]).ok
                  /\ ~decode_commitment(hintData[t]).ok
                  /\ ~getBlobResult[t].ok
    /\ (lastHint.status # "none" /\ ~HasMetadataPrefix(lastHint.commitment))
           => (lastHint.status = "failed" /\ lastHint.why = "decode")

\* ---------------------------------------------------------------------------
\* The proxy client: retrieve_blob_with_commitment and retrieve_blob
\* ---------------------------------------------------------------------------

\* a successful proxy call with the bytes it returns
ProxyOk(body) == [ok |-> TRUE, v |-> body, variant |-> "", msg |-> <<>>]

\* a failed proxy call: the variant of EigenDAProxyError and the text it carries
ProxyErr(variant, msg) == [ok |-> FALSE, v |-> <<>>, variant |-> variant, msg |-> msg]

\* the Display text of an EigenDAProxyError
ProxyErrorString(e) ==
    IF e.variant = "RetrieveBlob" THEN <<"Failed to retrieve blob, error: ">> \o e.msg
    ELSE IF e.variant = "RetrieveBlobWithCommitment"
    THEN <<"Failed to retrieve blob with commitment, error: ">> \o e.msg
    ELSE IF e.variant = "NotFound" THEN <<"Blob not fund from EigenDA">>
    ELSE IF e.variant = "NetworkError" THEN <<"Network error: ">> \o e.msg
    ELSE <<"Request blob timeout, error: ">> \o e.msg

\* the bodies a proxy answers with
ResponseBodies ==
    {<<>>, <<196, 3, 130, 4, 5>>, <<196, 9, 130, 4, 5, 0>>, <<196, 3, 130>>, <<196, 193, 3, 4, 5>>}

\* what the HTTP transport does with one GET: the timer fires first, the send fails, the
\* body cannot be read, or a response with a status and a body arrives
HttpOutcomes ==
    {[kind |-> "elapsed", status |-> "", body |-> <<>>],
     [kind |-> "send_error", status |-> "", body |-> <<>>],
     [kind |-> "body_error", status |-> "200 OK", body |-> <<>>],
     [kind |-> "response", status |-> "404 Not Found", body |-> <<>>],
     [kind |-> "response", status |-> "500 Internal Server Error", body |-> <<>>],
     [kind |-> "response", status |-> "204 No Content", body |-> <<>>]}
        \cup {[kind |-> "response", status |-> "200 OK", body |-> b] : b \in ResponseBodies}

\* the padded data a disperser answers with
PaddedBodies ==
    {<<>>, <<0>> \o PatternBytes(1, 4), <<0>> \o PatternBytes(2, 31),
     <<0>> \o PatternBytes(1, 31) \o <<0, 7>>}

\* what the gRPC transport does with one RetrieveBlob call
GrpcOutcomes ==
    {[kind |-> "connect_error", status |-> "", body |-> <<>>],
     [kind |-> "elapsed", status |-> "", body |-> <<>>],
     [kind |-> "rpc_error", status |-> "", body |-> <<>>]}
        \cup {[kind |-> "response", status |-> "", body |-> b] : b \in PaddedBodies}

\* EigenDaProxy::retrieve_blob_with_commitment of the derivation crate
retrieve_blob_with_commitment(commitment, net) ==
    IF ~decode_commitment(commitment).ok
    THEN ProxyErr("RetrieveBlobWithCommitment", <<decode_commitment(commitment).err>>)
    ELSE IF net.kind = "elapsed"
    THEN ProxyErr("RetrieveBlobWithCommitment", <<"deadline has elapsed">>)
    ELSE IF net.kind = "send_error"
    THEN ProxyErr("RetrieveBlobWithCommitment", <<"error sending request">>)
    ELSE IF net.status = "404 Not Found"
    THEN ProxyErr("RetrieveBlobWithCommitment", <<"Blob not found">>)
    ELSE IF net.status # "200 OK"
    THEN ProxyErr("RetrieveBlobWithCommitment", <<"Failed to get preimage, status: ", net.status>>)
    ELSE IF net.kind = "body_error"
    THEN ProxyErr("RetrieveBlobWithCommitment", <<"error decoding response body">>)
    ELSE ProxyOk(net.body)

\* EigenDAProxyClient::retrieve_blob_with_commitment of the providers crate
client_retrieve_blob_with_commitment(commitment, net) ==
    IF net.kind = "elapsed" THEN ProxyErr("NetworkError", <<"deadline has elapsed">>)
    ELSE IF net.kind = "send_error"
    THEN ProxyErr("RetrieveBlobWithCommitment", <<"error sending request">>)
    ELSE IF net.status = "200 OK"
    THEN IF net.kind = "body_error"
         THEN ProxyErr("RetrieveBlobWithCommitment", <<"error decoding response body">>)
         ELSE ProxyOk(net.body)
    ELSE IF net.status = "404 Not Found" THEN ProxyErr("NotFound", <<>>)
    ELSE ProxyErr("NetworkError", <<"Failed to get blob with commitment, status: ", net.status>>)

\* EigenDaProxy::retrieve_blob, the legacy gRPC retrieval; panic is the panic of the codec
retrieve_blob(net) ==
    IF net.kind = "connect_error"
    THEN [panic |-> FALSE, result |-> ProxyErr("RetrieveBlob", <<"transport error">>)]
    ELSE IF net.kind = "rpc_error"
    THEN [panic |-> FALSE, result |-> ProxyErr("RetrieveBlob", <<"status: Unavailable">>)]
    ELSE IF net.kind = "elapsed"
    THEN [panic |-> FALSE, result |-> ProxyErr("RetrieveBlob", <<"Timeout while retrieving blob">>)]
    ELSE [panic |-> remove_empty_byte_from_padded_bytes(net.body).panic,
          result |-> ProxyOk(remove_empty_byte_from_padded_bytes(net.body).out)]

\* the commitments a caller passes to the proxy
ProxyCommitments ==
    {CommitmentFor(PatternBytes(1, 5), 1), ShortCommitment, ForeignCommitment}

\* the calls of the proxy
ProxyCalls ==
    {[method |-> m, commitment |-> c, net |-> n]
         : m \in {"retrieve_blob_with_commitment", "client_retrieve_blob_with_commitment"},
           c \in ProxyCommitments, n \in HttpOutcomes}
        \cup {[method |-> "retrieve_blob", commitment |-> <<>>, net |-> n] : n \in GrpcOutcomes}

InitProxy ==
    /\ proxyPc = "call" /\ proxyCall \in ProxyCalls /\ proxyResult = <<>>
    /\ CodecIdle /\ CertIdle /\ OracleIdle /\ srsLoaded = TRUE /\ SourceIdle /\ NetIdle /\ PipelineIdle

\* a call of EigenDaProxy::retrieve_blob_with_commitment returns
RetrieveBlobWithCommitment ==
    /\ proxyPc = "call" /\ proxyCall.method = "retrieve_blob_with_commitment"
    /\ proxyResult' = retrieve_blob_with_commitment(proxyCall.commitment, proxyCall.net)
    /\ proxyPc' = "returned"
    /\ UNCHANGED <<proxyCall, codecVars, certVars, oracleVars, sourceVars, netVars,
                   pipelineVars>>

\* a call of EigenDAProxyClient::retrieve_blob_with_commitment returns
ClientRetrieveBlobWithCommitment ==
    /\ proxyPc = "call" /\ proxyCall.method = "client_retrieve_blob_with_commitment"
    /\ proxyResult' = client_retrieve_blob_with_commitment(proxyCall.commitment, proxyCall.net)
    /\ proxyPc' = "returned"
    /\ UNCHANGED <<proxyCall, codecVars, certVars, oracleVars, sourceVars, netVars,
                   pipelineVars>>

\* a call of EigenDaProxy::retrieve_blob returns or panics
RetrieveBlob ==
    /\ proxyPc = "call" /\ proxyCall.method = "retrieve_blob"
    /\ proxyResult' = retrieve_blob(proxyCall.net).result
    /\ proxyPc' = IF retrieve_blob(proxyCall.net).panic THEN "panicked" ELSE "returned"
    /\ UNCHANGED <<proxyCall, codecVars, certVars, oracleVars, sourceVars, netVars,
                   pipelineVars>>

NextProxy ==
    \/ RetrieveBlobWithCommitment
    \/ ClientRetrieveBlobWithCommitment
    \/ RetrieveBlob

SpecProxy == InitProxy /\ [][NextProxy]_vars

\* the call has returned after its timer fired before the transport answered
TimeoutReturned == proxyPc = "returned" /\ proxyCall.net.kind = "elapsed"

\* C17: when the retrieve timeout elapses before the proxy answers, the call returns the
\* TimeOut error variant, whichever of the three retrievals made the call.
TimeoutIsTimeOutVariant ==
    (TimeoutReturned
        /\ (proxyCall.method = "retrieve_blob" \/ decode_commitment(proxyCall.commitment).ok
               \/ proxyCall.method = "client_retrieve_blob_with_commitment"))
        => (~proxyResult.ok /\ proxyResult.variant = "TimeOut")

\* C19: HTTP 200 returns the body unmodified, HTTP 404 returns NotFound, and every other
\* status returns an error whose message carries the status.
StatusMapping ==
    (proxyPc = "returned" /\ proxyCall.method = "retrieve_blob_with_commitment"
        /\ decode_commitment(proxyCall.commitment).ok /\ proxyCall.net.kind = "response")
        => IF proxyCall.net.status = "200 OK"
           THEN proxyResult.ok /\ proxyResult.v = proxyCall.net.body
           ELSE IF proxyCall.net.status = "404 Not Found"
           THEN ~proxyResult.ok /\ proxyResult.variant = "NotFound"
           ELSE ~proxyResult.ok /\ proxyResult.msg[Len(proxyResult.msg)] = proxyCall.net.status

\* ---------------------------------------------------------------------------
\* The protobuf decoding of CalldataFrame (derive/src/proto/calldata.rs), as prost's
\* derived Message::decode performs it on the bytes of the calldata
\* ---------------------------------------------------------------------------

\* values from VarintCap on are kept as VarintCap: larger than every length and index of the
\* model
VarintCap == 268435456

DecodeOk(v, rest) == [ok |-> TRUE, v |-> v, rest |-> rest, err |-> ""]
DecodeErr(e) == [ok |-> FALSE, v |-> <<>>, rest |-> <<>>, err |-> e]

\* the number of bytes of the varint at the front of buf, 0 when it does not end in ten bytes
VarintEnd(buf) ==
    IF \E j \in 1..Min(10, Len(buf)) : buf[j] < 128
    THEN CHOOSE j \in 1..Min(10, Len(buf)) : buf[j] < 128 /\ \A k \in 1..(j - 1) : buf[k] >= 128
    ELSE 0

RECURSIVE VarintValue(_)
\* the value of the varint bytes b, little-endian groups of seven bits
VarintValue(b) ==
    IF Len(b) = 0 THEN 0
    ELSE IF VarintValue(Tail(b)) >= VarintCap \div 128 THEN VarintCap
    ELSE (b[1] % 128) + 128 * VarintValue(Tail(b))

\* the varint does not fit 32 bits
VarintOverU32(b) ==
    \E j \in 5..Len(b) : (j = 5 /\ b[j] % 128 >= 16) \/ (j > 5 /\ b[j] % 128 > 0)

\* the varint of n bytes at the front of buf
VarintOf(buf, n) ==
    IF n = 0 \/ (n = 10 /\ buf[10] >= 2) THEN DecodeErr("invalid varint")
    ELSE DecodeOk(VarintValue(SubSeq(buf, 1, n)), SubSeq(buf, n + 1, Len(buf)))

\* prost::encoding::decode_varint
decode_varint(buf) == VarintOf(buf, VarintEnd(buf))

\* the key whose varint k has been decoded from buf
KeyFrom(buf, k) ==
    IF ~k.ok THEN k
    ELSE IF VarintOverU32(SubSeq(buf, 1, VarintEnd(buf))) THEN DecodeErr("invalid key value")
    ELSE IF buf[1] % 8 > 5 THEN DecodeErr("invalid wire type value")
    ELSE IF k.v \div 8 = 0 THEN DecodeErr("invalid tag value: 0")
    ELSE DecodeOk([tag |-> k.v \div 8, wire_type |-> buf[1] % 8], k.rest)

\* prost::encoding::decode_key: v is [tag, wire_type]
decode_key(buf) == KeyFrom(buf, decode_varint(buf))

\* Buf::advance(n) after the check that n bytes remain
Advance(buf, n) ==
    IF n > Len(buf) THEN DecodeErr("buffer underflow")
    ELSE DecodeOk("", SubSeq(buf, n + 1, Len(buf)))

\* the n bytes at the front of buf
Take(buf, n) ==
    IF n > Len(buf) THEN DecodeErr("buffer underflow")
    ELSE DecodeOk(SubSeq(buf, 1, n), SubSeq(buf, n + 1, Len(buf)))

\* a length-delimited value: the length len, then Take
TakeDelimited(len) == IF ~len.ok THEN len ELSE Take(len.rest, len.v)

\* the bytes that remain after a skipped value
Skipped(d) == IF ~d.ok THEN d ELSE DecodeOk("", d.rest)

RECURSIVE skip_field(_, _, _)
RECURSIVE SkipGroup(_, _)
\* the field of a group whose key has been decoded: the end tag, or a field to skip
SkipGroupField(tag, key) ==
    IF ~key.ok THEN key
    ELSE IF key.v.wire_type = 4
    THEN IF key.v.tag # tag THEN DecodeErr("unexpected end group tag")
         ELSE DecodeOk("end", key.rest)
    ELSE skip_field(key.v.wire_type, key.v.tag, key.rest)

\* the fields of a group up to its end tag; d holds the bytes that remain
SkipGroup(tag, d) ==
    IF ~d.ok THEN d
    ELSE IF d.v = "end" THEN DecodeOk("", d.rest)
    ELSE SkipGroup(tag, SkipGroupField(tag, decode_key(d.rest)))

\* prost::encoding::skip_field
skip_field(wire_type, tag, buf) ==
    IF wire_type = 0 THEN Skipped(decode_varint(buf))
    ELSE IF wire_type = 1 THEN Advance(buf, 8)
    ELSE IF wire_type = 2 THEN Skipped(TakeDelimited(decode_varint(buf)))
    ELSE IF wire_type = 3 THEN SkipGroup(tag, DecodeOk("", buf))
    ELSE IF wire_type = 4 THEN DecodeErr("unexpected end group tag")
    ELSE Advance(buf, 4)

\* prost::encoding::bytes::merge
MergeBytes(wire_type, buf) ==
    IF wire_type # 2 THEN DecodeErr("invalid wire type") ELSE TakeDelimited(decode_varint(buf))

\* prost::encoding::uint32::merge
MergeUint32(wire_type, buf) ==
    IF wire_type # 0 THEN DecodeErr("invalid wire type") ELSE decode_varint(buf)

\* the varint d is appended to values
Pushed(values, d) == IF ~d.ok THEN d ELSE DecodeOk(Append(values, d.v), d.rest)

RECURSIVE PackedLoop(_, _)
\* merge_loop of a packed repeated uint32: varints until limit bytes remain; d holds the
\* values and the bytes that remain
PackedLoop(d, limit) ==
    IF ~d.ok THEN d
    ELSE IF Len(d.rest) < limit THEN DecodeErr("delimited length exceeded")
    ELSE IF Len(d.rest) = limit THEN d
    ELSE PackedLoop(Pushed(d.v, decode_varint(d.rest)), limit)

\* the start of a merge_loop: the length len has been decoded and must fit; v is the
\* number of bytes that remain after the delimited value
MergeLoopLimit(len) ==
    IF ~len.ok THEN len
    ELSE IF len.v > Len(len.rest) THEN DecodeErr("buffer underflow")
    ELSE DecodeOk(Len(len.rest) - len.v, len.rest)

\* the packed values whose length len has been decoded
PackedDelimited(values, len, limit) ==
    IF ~limit.ok THEN limit ELSE PackedLoop(DecodeOk(values, len.rest), limit.v)

PackedLength(values, len) == PackedDelimited(values, len, MergeLoopLimit(len))

\* prost::encoding::uint32::merge_repeated: packed or one value
MergeRepeatedUint32(values, wire_type, buf) ==
    IF wire_type = 2 THEN PackedLength(values, decode_varint(buf))
    ELSE Pushed(values, MergeUint32(wire_type, buf))

\* FrameRef::default()
DefaultFrameRef ==
    [batch_header_hash |-> <<>>, blob_index |-> 0, reference_block_number |-> 0,
     quorum_ids |-> <<>>, blob_length |-> 0, request_id |-> <<>>, commitment |-> <<>>]

\* the field of FrameRef with the tag, or "" for a tag FrameRef does not have
FrameRefFieldOf(tag) ==
    IF tag = 1 THEN "batch_header_hash" ELSE IF tag = 2 THEN "blob_index"
    ELSE IF tag = 3 THEN "reference_block_number" ELSE IF tag = 4 THEN "quorum_ids"
    ELSE IF tag = 5 THEN "blob_length" ELSE IF tag = 100 THEN "request_id"
    ELSE IF tag = 101 THEN "commitment" ELSE ""

\* the value d decoded for the field is stored in msg
SetField(msg, field, d) ==
    IF ~d.ok THEN d ELSE DecodeOk([msg EXCEPT ![field] = d.v], d.rest)

\* the value msg is kept and the skipped bytes are dropped
KeepValue(msg, d) == IF ~d.ok THEN d ELSE DecodeOk(msg, d.rest)

\* <FrameRef as Message>::merge_field
FrameRefMergeField(msg, tag, wire_type, buf) ==
    IF FrameRefFieldOf(tag) = "" THEN KeepValue(msg, skip_field(wire_type, tag, buf))
    ELSE IF tag \in {1, 100, 101} THEN SetField(msg, FrameRefFieldOf(tag), MergeBytes(wire_type, buf))
    ELSE IF tag = 4
    THEN SetField(msg, "quorum_ids", MergeRepeatedUint32(msg.quorum_ids, wire_type, buf))
    ELSE SetField(msg, FrameRefFieldOf(tag), MergeUint32(wire_type, buf))

\* the field whose key has been decoded is merged into msg
FrameRefField(msg, key) ==
    IF ~key.ok THEN key ELSE FrameRefMergeField(msg, key.v.tag, key.v.wire_type, key.rest)

RECURSIVE FrameRefLoop(_, _)
\* merge_loop of an embedded FrameRef: fields until limit bytes remain; d holds the
\* message and the bytes that remain
FrameRefLoop(d, limit) ==
    IF ~d.ok THEN d
    ELSE IF Len(d.rest) < limit THEN DecodeErr("delimited length exceeded")
    ELSE IF Len(d.rest) = limit THEN d
    ELSE FrameRefLoop(FrameRefField(d.v, decode_key(d.rest)), limit)

\* the embedded message whose length len has been decoded
FrameRefDelimited(msg, len, limit) ==
    IF ~limit.ok THEN limit ELSE FrameRefLoop(DecodeOk(msg, len.rest), limit.v)

\* the length len at the front of a merge_loop, with its limit
FrameRefLength(msg, len) == FrameRefDelimited(msg, len, MergeLoopLimit(len))

\* prost::encoding::message::merge of a FrameRef into msg
MergeFrameRef(msg, wire_type, buf) ==
    IF wire_type # 2 THEN DecodeErr("invalid wire type")
    ELSE FrameRefLength(msg, decode_varint(buf))

\* CalldataFrame::default().value, Value::Frame and Value::FrameRef
NoValue == [kind |-> "None", frame |-> <<>>, frame_ref |-> DefaultFrameRef]
FrameValue(d) ==
    IF ~d.ok THEN d
    ELSE DecodeOk([kind |-> "Frame", frame |-> d.v, frame_ref |-> DefaultFrameRef], d.rest)
FrameRefValue(d) ==
    IF ~d.ok THEN d
    ELSE DecodeOk([kind |-> "FrameRef", frame |-> <<>>, frame_ref |-> d.v], d.rest)

\* calldata_frame::Value::merge and the skip of the other tags in CalldataFrame::merge_field
CalldataFrameMergeField(value, tag, wire_type, buf) ==
    IF tag = 1 THEN FrameValue(MergeBytes(wire_type, buf))
    ELSE IF tag = 2
    THEN FrameRefValue(MergeFrameRef(IF value.kind = "FrameRef" THEN value.frame_ref
                                     ELSE DefaultFrameRef, wire_type, buf))
    ELSE KeepValue(value, skip_field(wire_type, tag, buf))

\* the field whose key has been decoded is merged into the oneof
CalldataFrameField(value, key) ==
    IF ~key.ok THEN key
    ELSE CalldataFrameMergeField(value, key.v.tag, key.v.wire_type, key.rest)

RECURSIVE CalldataFrameLoop(_)
\* Message::merge of CalldataFrame: fields while the buffer has bytes; d holds the oneof
\* and the bytes that remain
CalldataFrameLoop(d) ==
    IF ~d.ok \/ Len(d.rest) = 0 THEN d
    ELSE CalldataFrameLoop(CalldataFrameField(d.v, decode_key(d.rest)))

\* a decode that takes a malformed encoding for an empty frame
CalldataFrameDecodeLenient(buf) ==
    IF CalldataFrameLoop(DecodeOk(NoValue, buf)).ok THEN CalldataFrameLoop(DecodeOk(NoValue, buf))
    ELSE DecodeOk(NoValue, <<>>)

\* CalldataFrame::decode: value is the oneof of the decoded message
CalldataFrameDecode(buf) == CalldataFrameLoop(DecodeOk(NoValue, buf))

\* the encoding of a FrameRef by prost: default fields are omitted, quorum_ids are packed
RECURSIVE VarintsOf(_)
VarintsOf(ns) == IF Len(ns) = 0 THEN <<>> ELSE Varint(Head(ns)) \o VarintsOf(Tail(ns))

EncodeFrameRef(r) ==
    ProstBytes(1, r.batch_header_hash) \o ProstUint(2, r.blob_index)
        \o ProstUint(3, r.reference_block_number) \o ProstBytes(4, VarintsOf(r.quorum_ids))
        \o ProstUint(5, r.blob_length) \o ProstBytes(100, r.request_id)
        \o ProstBytes(101, r.commitment)

\* ---------------------------------------------------------------------------
\* EigenDaSource (derive/src/sources/eigen_da.rs) behind the online provider
\* ---------------------------------------------------------------------------
DERIVATION_VERSION_EIGEN_DA == 237

MaxTxs == 2

\* an EigenDAProviderError: its variant and the text it carries
ProviderErr(variant, msg) == [variant |-> variant, msg |-> msg]
NoError == ProviderErr("", <<>>)

\* the Display text of an EigenDAProviderError
ProviderErrorString(e) ==
    IF e.variant = "RetrieveFramesFromDaIndexer"
    THEN <<"Failed to retrieve blob from da indexer, error: ">> \o e.msg
    ELSE IF e.variant = "Status" THEN <<"Get blob from indexer da, status: ">> \o e.msg
    ELSE IF e.variant = "RLPDecodeError" THEN <<"Failed to decode blob, error: ">> \o e.msg
    ELSE IF e.variant = "ProtoDecodeError" THEN <<"Failed to decode proto buf, error: ">> \o e.msg
    ELSE e.msg

\* <VecOfBytes as Decodable>::decode through rlp::decode: the items of the list as byte
\* strings
DecodeVecOfBytes(b) ==
    CollectItems([j \in 1..Len(RlpItems(b)) |-> DecodeBytes(RlpItems(b)[j])])

\* OnlineEigenDaProvider::retrieve_blob_with_commitment over the proxy's result
ProviderRetrieve(prox) ==
    IF prox.ok THEN [ok |-> TRUE, v |-> prox.v, error |-> NoError]
    ELSE [ok |-> FALSE, v |-> <<>>, error |-> ProviderErr("Status", ProxyErrorString(prox))]

\* tx.recover_signer().unwrap_or_default()
recover_signer(tx) == IF tx.signer.ok THEN tx.signer.v ELSE 0

\* a filter that looks at the recipient only
IsToBatcher(tx, cfg) == tx.to = Some(cfg.batcher_address)

\* the recipient is the batch inbox and the recovered signer is the batcher
IsBatcherTx(tx, cfg) ==
    tx.to = Some(cfg.batcher_address) /\ recover_signer(tx) = cfg.signer

\* blob_hashes.map_or(0, |h| h.len()) and the hashes of a blob transaction
BlobHashesOf(tx) == IF tx.ty = "Eip4844" THEN tx.blob_hashes ELSE <<>>

\* a scan that skips no FrameRef
FrameRefNeverSkipped(frame_ref) == FALSE

\* a FrameRef without quorum IDs is skipped
FrameRefSkipped(frame_ref) == Len(frame_ref.quorum_ids) = 0

\* the state of the scan of data_from_eigen_da: out and hashes with the index of the
\* transaction each entry comes from, number, and what the scan has done so far
ScanStart ==
    [out |-> <<>>, hashes |-> <<>>, number |-> 0, visited |-> 0, decoded |-> {},
     requests |-> <<>>, status |-> "scan", at |-> 0, error |-> NoError]

\* the scan stops with an error or a panic at transaction i
ScanFail(acc, i, status, error) == [acc EXCEPT !.status = status, !.at = i, !.error = error]

\* out.push for each payload of a transaction
PushAll(acc, i, payloads) ==
    [acc EXCEPT !.out = @ \o [j \in 1..Len(payloads) |-> [tx |-> i, data |-> payloads[j]]]]

\* hashes.push(IndexedBlobHash { hash, index: number }); number += 1, for each hash
PushHashes(acc, i, hs) ==
    [acc EXCEPT !.hashes = @ \o [j \in 1..Len(hs) |->
                                    [tx |-> i, hash |-> hs[j], index |-> acc.number + j - 1]],
                !.number = @ + Len(hs)]

\* map_err(|e| EigenDAProviderError::Status(e.to_string())) on the provider's error
RetrieveError(got) == ProviderErr("Status", ProviderErrorString(got.error))

\* a scan that pushes the items of the decoded list last to first
ScanDecodedReversed(acc, i, blobs) ==
    IF ~blobs.ok THEN ScanFail(acc, i, "err", ProviderErr("RLPDecodeError", <<blobs.err>>))
    ELSE PushAll(acc, i, [j \in 1..Len(blobs.v) |-> blobs.v[Len(blobs.v) + 1 - j]])

\* the list decoded from the retrieved blob is pushed
ScanDecoded(acc, i, blobs) ==
    IF ~blobs.ok THEN ScanFail(acc, i, "err", ProviderErr("RLPDecodeError", <<blobs.err>>))
    ELSE PushAll(acc, i, blobs.v)

\* the retrieved blob of a FrameRef: cut to blob_length and decoded
ScanBlob(acc, i, frame_ref, got) ==
    IF ~got.ok THEN ScanFail(acc, i, "err", RetrieveError(got))
    ELSE IF frame_ref.blob_length > Len(got.v) THEN ScanFail(acc, i, "panic", NoError)
    ELSE ScanDecoded(acc, i, DecodeVecOfBytes(SubSeq(got.v, 1, frame_ref.blob_length)))

\* the request of transaction i for the blob of its FrameRef, what the transport did and
\* what came back
ScanRequest(acc, i, frame_ref, net, got) ==
    ScanBlob([acc EXCEPT !.requests = Append(@, [tx |-> i, frame_ref |-> frame_ref,
                                                 net |-> net, got |-> got])],
             i, frame_ref, got)

\* the decoded CalldataFrame of transaction i; nets are the answers of the transport to
\* the requests of this scan, in order
ScanFrame(acc, i, d, nets) ==
    IF ~d.ok THEN ScanFail(acc, i, "err", ProviderErr("ProtoDecodeError", <<d.err>>))
    ELSE IF d.v.kind = "None" THEN acc
    ELSE IF d.v.kind = "Frame" THEN PushAll(acc, i, <<d.v.frame>>)
    ELSE IF FrameRefSkipped(d.v.frame_ref) THEN acc
    ELSE ScanRequest(acc, i, d.v.frame_ref, nets[Len(acc.requests) + 1],
                     ProviderRetrieve(retrieve_blob_with_commitment(
                                          d.v.frame_ref.commitment, nets[Len(acc.requests) + 1])))

\* the body of the for loop of data_from_eigen_da for transaction i
ScanTx(acc, i, tx, cfg, nets) ==
    IF tx.ty \notin {"Legacy", "Eip2930", "Eip1559", "Eip4844"} THEN acc
    ELSE IF tx.to = None THEN acc
    ELSE IF ~IsBatcherTx(tx, cfg) THEN [acc EXCEPT !.number = @ + Len(BlobHashesOf(tx))]
    ELSE IF cfg.da_indexer_enable THEN [acc EXCEPT !.status = "break"]
    ELSE IF Len(tx.input) = 0
    THEN PushHashes(acc, i, BlobHashesOf(tx))
    ELSE IF tx.input[1] = DERIVATION_VERSION_EIGEN_DA
    THEN ScanFrame([acc EXCEPT !.decoded = @ \cup {i}], i,
                   CalldataFrameDecode(SubSeq(tx.input, 2, Len(tx.input))), nets)
    ELSE acc

RECURSIVE ScanLoop(_, _, _, _, _)
\* data_from_eigen_da from transaction i on
ScanLoop(acc, i, txs, cfg, nets) ==
    IF i > Len(txs) \/ acc.status # "scan" THEN acc
    ELSE ScanLoop(ScanTx([acc EXCEPT !.visited = i], i, txs[i], cfg, nets), i + 1, txs, cfg,
                  nets)

\* data_from_eigen_da
data_from_eigen_da(txs, cfg, nets) == ScanLoop(ScanStart, 1, txs, cfg, nets)

\* the list decoded from the concatenated blobs is pushed after the payloads of the scan
LoadDecoded(acc, n, blobs) ==
    IF ~blobs.ok
    THEN ScanFail(acc, n + 1, "err", ProviderErr("RetrieveFramesFromDaIndexer", <<blobs.err>>))
    ELSE PushAll(acc, n + 1, blobs.v)

\* the blobs of the blob provider for the hashes of the scan
LoadBlobHashes(acc, n, blobs) ==
    IF acc.status \in {"err", "panic"} \/ Len(acc.hashes) = 0 THEN acc
    ELSE IF blobs.kind = "error"
    THEN ScanFail(acc, n + 1, "err", ProviderErr("Backend", <<"Backend error: ">> \o blobs.msg))
    ELSE IF \E j \in 1..Len(blobs.blobs) : Len(blobs.blobs[j]) = 0
    THEN ScanFail(acc, n + 1, "err",
                  ProviderErr("RLPDecodeError", <<"Blob decoding error: Missing Data">>))
    ELSE LoadDecoded(acc, n, DecodeVecOfBytes(Flatten(blobs.blobs)))

\* Ok(()) of load_blobs when neither the scan nor the blobs failed
Loaded(acc) == IF acc.status \in {"err", "panic"} THEN acc ELSE [acc EXCEPT !.status = "ok"]

\* load_blobs on a source that is not open: the scan and the blobs, or the error of the
\* chain provider
load_blobs(txs, cfg, env) ==
    IF env.chain = "error"
    THEN ScanFail(ScanStart, 0, "err", ProviderErr("Backend", <<"chain provider error">>))
    ELSE Loaded(LoadBlobHashes(data_from_eigen_da(txs, cfg, env.nets), Len(txs), env.blobs))

\* the payloads of the entries of out
PayloadsOf(out) == [j \in 1..Len(out) |-> out[j].data]

\* a next_data that takes the payload at the back
next_data_last(d) ==
    IF Len(d) = 0
    THEN [result |-> [ok |-> FALSE, v |-> <<>>, kind |-> "Temporary", error |-> "Eof",
                      msg |-> <<>>],
          data |-> d]
    ELSE [result |-> [ok |-> TRUE, v |-> d[Len(d)], kind |-> "", error |-> "", msg |-> <<>>],
          data |-> SubSeq(d, 1, Len(d) - 1)]

\* next_data: the result and the data that remain
next_data(d) ==
    IF Len(d) = 0
    THEN [result |-> [ok |-> FALSE, v |-> <<>>, kind |-> "Temporary", error |-> "Eof",
                      msg |-> <<>>],
          data |-> d]
    ELSE [result |-> [ok |-> TRUE, v |-> Head(d), kind |-> "", error |-> "", msg |-> <<>>],
          data |-> Tail(d)]

\* the error next returns when load_blobs fails
LoadError(e) ==
    [ok |-> FALSE, v |-> <<>>, kind |-> "Temporary", error |-> "Provider",
     msg |-> <<"Failed to load eigen_da blobs from stream: {block_ref.hash}, err: ">>
                 \o ProviderErrorString(e)]

\* the calldata of a batcher transaction that holds the encoded frame
FrameCalldata(enc) == <<DERIVATION_VERSION_EIGEN_DA>> \o enc

\* a FrameRef to the blob of CommitmentFor
FrameRefTo(quorum_ids, blob_length) ==
    [DefaultFrameRef EXCEPT !.quorum_ids = quorum_ids, !.blob_length = blob_length,
                            !.commitment = CommitmentFor(PatternBytes(1, 5), 1)]

\* the calldata of the transactions of a block
Calldatas ==
    {<<>>, <<1, 2>>, <<DERIVATION_VERSION_EIGEN_DA>>,
     FrameCalldata(ProstBytes(1, <<7, 8>>)),
     FrameCalldata(ProstMessage(2, EncodeFrameRef(FrameRefTo(<<0, 1>>, 5)))),
     FrameCalldata(ProstMessage(2, EncodeFrameRef(FrameRefTo(<<>>, 5)))),
     FrameCalldata(<<10, 5, 1>>), FrameCalldata(<<8, 1>>)}

\* a transaction: its envelope type, recipient, what signer recovery gives, calldata and
\* blob hashes
Tx(ty, to, signer, input, blob_hashes) ==
    [ty |-> ty, to |-> to, signer |-> signer, input |-> input, blob_hashes |-> blob_hashes]

\* the transactions of a block: those of the batcher to the inbox with each calldata,
\* blob transactions of the batcher without and with calldata, and others with another
\* recipient, another signer, no recipient, no recoverable signer or another envelope type
TxValues ==
    {Tx("Eip1559", Some(1), Ok(2), c, <<>>) : c \in Calldatas \ {<<>>}}
        \cup {Tx("Eip4844", Some(1), Ok(2), <<>>, <<11, 14>>),
              Tx("Eip4844", Some(3), Ok(2), <<>>, <<12>>),
              Tx("Eip4844", Some(1), Ok(2), FrameCalldata(ProstBytes(1, <<7, 8>>)), <<13>>),
              Tx("Legacy", Some(3), Ok(2), FrameCalldata(ProstBytes(1, <<7, 8>>)), <<>>),
              Tx("Eip2930", Some(1), Ok(3),
                 FrameCalldata(ProstMessage(2, EncodeFrameRef(FrameRefTo(<<0, 1>>, 5)))), <<>>),
              Tx("Eip1559", Some(1), Err("signature error"),
                 FrameCalldata(ProstBytes(1, <<7, 8>>)), <<>>),
              Tx("Eip1559", None, Ok(2), FrameCalldata(ProstBytes(1, <<7, 8>>)), <<>>),
              Tx("Eip7702", Some(1), Ok(2), FrameCalldata(ProstBytes(1, <<7, 8>>)), <<>>)}

\* the blocks of the chain
Blocks == UNION {[1..n -> TxValues] : n \in 0..MaxTxs}

\* what the blob provider answers to get_blobs
BlobOutcomes ==
    {[kind |-> "error", msg |-> <<"blob sidecar request failed">>, blobs |-> <<>>],
     [kind |-> "blobs", msg |-> <<>>, blobs |-> <<<<196, 3, 130, 4, 5>>, <<0, 0>>>>],
     [kind |-> "blobs", msg |-> <<>>, blobs |-> <<<<193, 192>>>>]}

\* a transport that answers every request with the blob
GoodNets == [j \in 1..MaxTxs |-> [kind |-> "response", status |-> "200 OK",
                                   body |-> <<196, 3, 130, 4, 5>>]]

NoBlobs == [kind |-> "blobs", msg |-> <<>>, blobs |-> <<>>]

\* what the providers answer during one load of the block: the chain provider, the
\* transport for as many requests as the block can make, the blob provider when the block
\* has blob hashes
LoadEnvs(txs, cfg) ==
    {[chain |-> "error", nets |-> <<>>, blobs |-> NoBlobs]}
        \cup {[chain |-> "ok", nets |-> nets, blobs |-> blobs]
                  : nets \in [1..Len(data_from_eigen_da(txs, cfg, GoodNets).requests)
                                  -> HttpOutcomes],
                    blobs \in IF Len(data_from_eigen_da(txs, cfg, GoodNets).hashes) = 0
                              THEN {NoBlobs} ELSE BlobOutcomes}

\* the configurations of the source: the batch inbox, the batcher and the indexer switch
SourceConfigs ==
    {[batcher_address |-> 1, signer |-> 2, da_indexer_enable |-> e] : e \in BOOLEAN}

InitSource ==
    /\ sourceOpen = FALSE /\ sourceData = <<>> /\ sourceCfg \in SourceConfigs
    /\ sourceBlock = None /\ sourceLoad = NoLoad /\ sourceReturned = <<>>
    /\ sourceResult = NoCall /\ sourceRef = None
    /\ CodecIdle /\ CertIdle /\ OracleIdle /\ srsLoaded = TRUE /\ ProxyIdle /\ NetIdle /\ PipelineIdle

\* the source has not panicked
SourceAlive == sourceResult.kind # "panic"

\* the block references a call of next on an open source passes: that of the loaded
\* block, and those of an empty block and of a block with one frame
LaterBlocks ==
    (IF sourceBlock = None THEN {} ELSE {sourceBlock[1]})
        \cup {<<>>, <<Tx("Eip1559", Some(1), Ok(2), FrameCalldata(ProstBytes(1, <<7, 8>>)), <<>>)>>}

\* an open source that loads the block it is given on every call
NextOpenRescans(block_ref) ==
    /\ SourceAlive /\ sourceOpen
    /\ sourceBlock' = Some(block_ref) /\ sourceRef' = Some(block_ref)
    /\ \E loaded \in {load_blobs(block_ref, sourceCfg, env)
                          : env \in LoadEnvs(block_ref, sourceCfg)} :
           /\ sourceLoad' = loaded
           /\ IF loaded.status = "ok"
              THEN /\ sourceResult' = next_data(PayloadsOf(loaded.out)).result
                   /\ sourceData' = next_data(PayloadsOf(loaded.out)).data
              ELSE /\ sourceResult' = LoadError(loaded.error)
                   /\ UNCHANGED sourceData
    /\ UNCHANGED <<sourceOpen, sourceCfg, sourceReturned>>
    /\ UNCHANGED <<codecVars, certVars, oracleVars, proxyVars, netVars, pipelineVars>>

\* EigenDaSource::next(block_ref) on an open source: load_blobs returns at once, whatever
\* block_ref is, and next_data follows
NextOpen(block_ref) ==
    /\ SourceAlive /\ sourceOpen
    /\ sourceRef' = Some(block_ref)
    /\ sourceResult' = next_data(sourceData).result
    /\ sourceData' = next_data(sourceData).data
    /\ sourceReturned' = IF next_data(sourceData).result.ok
                         THEN Append(sourceReturned, next_data(sourceData).result.v)
                         ELSE sourceReturned
    /\ UNCHANGED <<sourceOpen, sourceCfg, sourceBlock, sourceLoad>>
    /\ UNCHANGED <<codecVars, certVars, oracleVars, proxyVars, netVars, pipelineVars>>

\* a load that leaves the payloads it had collected in the buffer when it fails
NextLoadKeepsCollected(txs, env) ==
    /\ SourceAlive /\ ~sourceOpen
    /\ sourceBlock' = Some(txs) /\ sourceRef' = Some(txs)
    /\ \E loaded \in {load_blobs(txs, sourceCfg, env)} :
           /\ sourceLoad' = loaded
           /\ IF loaded.status = "panic"
              THEN /\ sourceResult' = [NoCall EXCEPT !.kind = "panic"]
                   /\ UNCHANGED <<sourceOpen, sourceData, sourceReturned>>
              ELSE IF loaded.status = "err"
              THEN /\ sourceResult' = LoadError(loaded.error)
                   /\ sourceData' = PayloadsOf(loaded.out)
                   /\ UNCHANGED <<sourceOpen, sourceReturned>>
              ELSE /\ sourceOpen' = TRUE
                   /\ sourceResult' = next_data(PayloadsOf(loaded.out)).result
                   /\ sourceData' = next_data(PayloadsOf(loaded.out)).data
                   /\ sourceReturned' =
                          IF next_data(PayloadsOf(loaded.out)).result.ok
                          THEN Append(sourceReturned, next_data(PayloadsOf(loaded.out)).result.v)
                          ELSE sourceReturned
    /\ UNCHANGED sourceCfg
    /\ UNCHANGED <<codecVars, certVars, oracleVars, proxyVars, netVars, pipelineVars>>

\* EigenDaSource::next(block_ref) on a source that is not open: load_blobs runs, and
\* next_data follows when it succeeds
NextLoad(txs, env) ==
    /\ SourceAlive /\ ~sourceOpen
    /\ sourceBlock' = Some(txs) /\ sourceRef' = Some(txs)
    /\ \E loaded \in {load_blobs(txs, sourceCfg, env)} :
           /\ sourceLoad' = loaded
           /\ IF loaded.status = "panic"
              THEN /\ sourceResult' = [NoCall EXCEPT !.kind = "panic"]
                   /\ UNCHANGED <<sourceOpen, sourceData, sourceReturned>>
              ELSE IF loaded.status = "err"
              THEN /\ sourceResult' = LoadError(loaded.error)
                   /\ UNCHANGED <<sourceOpen, sourceData, sourceReturned>>
              ELSE /\ sourceOpen' = TRUE
                   /\ sourceResult' = next_data(PayloadsOf(loaded.out)).result
                   /\ sourceData' = next_data(PayloadsOf(loaded.out)).data
                   /\ sourceReturned' =
                          IF next_data(PayloadsOf(loaded.out)).result.ok
                          THEN Append(sourceReturned, next_data(PayloadsOf(loaded.out)).result.v)
                          ELSE sourceReturned
    /\ UNCHANGED sourceCfg
    /\ UNCHANGED <<codecVars, certVars, oracleVars, proxyVars, netVars, pipelineVars>>

\* a clear that drops the payloads and leaves the source open
clear_data_only(source) == [data |-> <<>>, open |-> source.open]

\* EigenDaSource::clear: self.data.clear(); self.open = false
clear(source) == [data |-> <<>>, open |-> FALSE]

\* clear has run since the last call of next: through which type, and whether it dropped
\* payloads
Cleared(by, dropped) ==
    [ok |-> FALSE, v |-> <<dropped # <<>>>>, kind |-> "cleared", error |-> "", msg |-> <<by>>]

\* clear of the source, called through the type by; what has been returned is counted
\* anew from here
ClearBy(by) ==
    /\ SourceAlive
    /\ sourceData' = clear([data |-> sourceData, open |-> sourceOpen]).data
    /\ sourceOpen' = clear([data |-> sourceData, open |-> sourceOpen]).open
    /\ sourceReturned' = <<>> /\ sourceLoad' = NoLoad /\ sourceBlock' = None
    /\ sourceRef' = None
    /\ sourceResult' = Cleared(by, sourceData)
    /\ UNCHANGED sourceCfg
    /\ UNCHANGED <<codecVars, certVars, oracleVars, proxyVars, netVars, pipelineVars>>

\* EigenDaSource::clear, called on the source
Clear == ClearBy("EigenDaSource")

\* EthereumDataSource::clear: the blob source and the calldata source, which next does
\* not use, are cleared, then the EigenDA source
EthereumClear == ClearBy("EthereumDataSource")

NextSource ==
    \/ \E block_ref \in LaterBlocks : NextOpen(block_ref)
    \/ \E txs \in IF sourceBlock = None THEN Blocks ELSE {sourceBlock[1]} :
           \E env \in LoadEnvs(txs, sourceCfg) : NextLoad(txs, env)
    \/ Clear
    \/ EthereumClear

SpecSource == InitSource /\ [][NextSource]_vars

(***************************************************************************)
(* The transport operations of EigenDaProxy and OnlineEigenDaProvider: the  *)
(* phases of one call against a remote end that answers, fails or stays     *)
(* silent in each of them                                                   *)
(***************************************************************************)
TransportOps == {"retrieve_blob_with_commitment", "retrieve_blob", "disperse_blob",
                 "get_blob_status", "retrieval_frames_from_da_indexer"}

\* the operations made with the reqwest clients; the others open a tonic channel
HttpOps == {"retrieve_blob_with_commitment", "disperse_blob"}

\* the phase the operation is in: the field of netRemote that tells what the remote does
PhaseOf(p) ==
    CASE p = "connecting" -> "connect" [] p = "requesting" -> "request" [] p = "reading" -> "body"

InPhase == netPc \in {"connecting", "requesting", "reading"}

\* what bounds the time an operation waits in a phase. The reqwest clients are built with
\* Client::builder().timeout(..), a deadline from the start of the connection to the end
\* of the body, and send() is awaited under tokio's timeout; the tonic channels are built
\* with Endpoint::timeout, which bounds each request, not the connection, and connect()
\* is awaited outside tokio's timeout, which wraps the call only
Deadline(op, phase) ==
    IF op \in HttpOps THEN (IF phase = "body" THEN "client" ELSE "tokio")
    ELSE IF phase = "connect" THEN "none"
    ELSE "tokio"

\* the error an operation returns when its argument does not pass the checks made before
\* the network is used
InputError(op) ==
    CASE op = "retrieve_blob_with_commitment" -> "RetrieveBlobWithCommitment"
      [] op = "disperse_blob" -> "InvalidInput"
      [] op = "retrieve_blob" -> "RetrieveBlob"
      [] op = "get_blob_status" -> "GetBlobStatus"
      [] op = "retrieval_frames_from_da_indexer" -> "RetrieveFramesFromDaIndexer"

\* the error an operation returns when the remote end fails in a phase
FailError(op, phase) ==
    CASE op = "retrieve_blob_with_commitment" -> "RetrieveBlobWithCommitment"
      [] op = "disperse_blob" -> (IF phase = "body" THEN "RetrieveBlob" ELSE "DisperseBlob")
      [] op = "retrieve_blob" -> "RetrieveBlob"
      [] op = "get_blob_status" -> "GetBlobStatus"
      [] op = "retrieval_frames_from_da_indexer" -> "RetrieveFramesFromDaIndexer"

\* the error an operation returns when the deadline of a phase expires
DeadlineError(op, phase) ==
    CASE op = "retrieve_blob_with_commitment" -> "RetrieveBlobWithCommitment"
      [] op = "disperse_blob" -> (IF phase = "body" THEN "RetrieveBlob" ELSE "TimeOut")
      [] op = "retrieve_blob" -> "RetrieveBlob"
      [] op = "get_blob_status" -> "TimeOut"
      [] op = "retrieval_frames_from_da_indexer" -> "TimeOut"

RemoteBehaviours == {"answers", "fails", "silent"}

InitTransport ==
    /\ netPc = "called"
    /\ netOp \in [name : TransportOps, valid : BOOLEAN]
    /\ netRemote \in [connect : RemoteBehaviours, request : RemoteBehaviours,
                      body : RemoteBehaviours]
    /\ netResult = NoReturn
    /\ CodecIdle /\ CertIdle /\ OracleIdle /\ srsLoaded = TRUE /\ ProxyIdle /\ SourceIdle
    /\ PipelineIdle

\* the operation checks its argument (decode_commitment, tx_data.is_empty(),
\* Channel::from_shared) and starts to connect
Begin ==
    /\ netPc = "called"
    /\ IF netOp.valid
       THEN netPc' = "connecting" /\ UNCHANGED netResult
       ELSE netPc' = "returned" /\ netResult' = [ok |-> FALSE, variant |-> InputError(netOp.name)]
    /\ UNCHANGED <<netOp, netRemote>>
    /\ UNCHANGED <<codecVars, certVars, oracleVars, proxyVars, sourceVars, pipelineVars>>

\* the remote end answers in the phase the operation waits in: the connection stands, the
\* response has come, or the body is read and the operation returns
RemoteAnswers ==
    /\ InPhase /\ netRemote[PhaseOf(netPc)] = "answers"
    /\ IF netPc = "reading"
       THEN netPc' = "returned" /\ netResult' = [ok |-> TRUE, variant |-> "Ok"]
       ELSE /\ netPc' = (IF netPc = "connecting" THEN "requesting" ELSE "reading")
            /\ UNCHANGED netResult
    /\ UNCHANGED <<netOp, netRemote>>
    /\ UNCHANGED <<codecVars, certVars, oracleVars, proxyVars, sourceVars, pipelineVars>>

\* the remote end fails in the phase the operation waits in: the connection is refused,
\* the request is answered with an error, the body breaks off
RemoteFails ==
    /\ InPhase /\ netRemote[PhaseOf(netPc)] = "fails"
    /\ netPc' = "returned"
    /\ netResult' = [ok |-> FALSE, variant |-> FailError(netOp.name, PhaseOf(netPc))]
    /\ UNCHANGED <<netOp, netRemote>>
    /\ UNCHANGED <<codecVars, certVars, oracleVars, proxyVars, sourceVars, pipelineVars>>

\* the deadline of the phase the operation waits in expires
DeadlineExpires ==
    /\ InPhase /\ Deadline(netOp.name, PhaseOf(netPc)) # "none"
    /\ netPc' = "returned"
    /\ netResult' = [ok |-> FALSE, variant |-> DeadlineError(netOp.name, PhaseOf(netPc))]
    /\ UNCHANGED <<netOp, netRemote>>
    /\ UNCHANGED <<codecVars, certVars, oracleVars, proxyVars, sourceVars, pipelineVars>>

NextTransport == Begin \/ RemoteAnswers \/ RemoteFails \/ DeadlineExpires

SpecTransport == InitTransport /\ [][NextTransport]_vars

\* the runtime polls the operation whenever it can go on: an answer that has come is
\* taken, a timer that was set expires
SpecTransportLive == SpecTransport /\ WF_vars(NextTransport)

\* the temporary Eof error
EofError == [ok |-> FALSE, v |-> <<>>, kind |-> "Temporary", error |-> "Eof", msg |-> <<>>]

\* the payloads a loaded block holds for transaction i: the frame of its calldata, or the
\* byte strings of the list in the blob its FrameRef names, in list order; none otherwise
TxPayloads(i) ==
    IF i \notin sourceLoad.decoded THEN <<>>
    ELSE IF CalldataFrameDecode(Tail(sourceBlock[1][i].input)).v.kind = "Frame"
    THEN <<CalldataFrameDecode(Tail(sourceBlock[1][i].input)).v.frame>>
    ELSE IF \E r \in 1..Len(sourceLoad.requests) : sourceLoad.requests[r].tx = i
    THEN LET r == CHOOSE r \in 1..Len(sourceLoad.requests) : sourceLoad.requests[r].tx = i
         IN DecodeVecOfBytes(SubSeq(sourceLoad.requests[r].got.v, 1,
                                    sourceLoad.requests[r].frame_ref.blob_length)).v
    ELSE <<>>

\* the payloads of the transactions i..n of the loaded block, in transaction order
RECURSIVE PayloadsFrom(_, _)
PayloadsFrom(i, n) == IF i > n THEN <<>> ELSE TxPayloads(i) \o PayloadsFrom(i + 1, n)

\* the payloads of the legacy blobs come after those of the transactions
BlobPayloads == PayloadsOf(SelectSeq(sourceLoad.out, LAMBDA e : e.tx > Len(sourceBlock[1])))

\* what has been returned and what remains are the loaded payloads in scan order
ReturnedInScanOrder ==
    sourceOpen =>
        /\ sourceReturned \o sourceData
               = PayloadsFrom(1, Len(sourceBlock[1])) \o BlobPayloads
        /\ sourceResult.ok => (Len(sourceReturned) > 0
                                  /\ sourceResult.v = sourceReturned[Len(sourceReturned)])
        /\ ~sourceResult.ok => (sourceResult = EofError /\ sourceData = <<>>)

\* a call on an open source returns the payload at the front, or Eof when none is left
OnePerCall ==
    (sourceOpen /\ sourceOpen')
        => IF sourceData = <<>>
           THEN sourceResult' = EofError /\ sourceData' = <<>>
                    /\ sourceReturned' = sourceReturned
           ELSE sourceResult'.ok /\ sourceResult'.v = Head(sourceData)
                    /\ sourceData' = Tail(sourceData)
                    /\ sourceReturned' = Append(sourceReturned, Head(sourceData))

\* C13: between two calls of clear, the successful calls of next return the loaded payloads
\* one per call, each once, in transaction order and in list order within a blob; once all
\* are returned every further call returns the temporary Eof error.
NextReturnsInOrderThenEof == []ReturnedInScanOrder /\ [][OnePerCall]_vars

\* all payloads of a block with a frame and a blob of two payloads have been returned and
\* a further call has returned Eof
DrainedThreePayloads ==
    /\ sourceOpen /\ Len(sourceReturned) = 3 /\ sourceData = <<>> /\ sourceResult = EofError
    /\ Len(sourceLoad.requests) = 1
    /\ sourceReturned[1] # sourceReturned[3]

\* transaction i of the scanned block is a batcher transaction whose calldata decodes to a
\* FrameRef without quorum IDs
ZeroQuorumTx(i) ==
    /\ i \in sourceLoad.decoded
    /\ CalldataFrameDecode(Tail(sourceBlock[1][i].input)).ok
    /\ CalldataFrameDecode(Tail(sourceBlock[1][i].input)).v.kind = "FrameRef"
    /\ CalldataFrameDecode(Tail(sourceBlock[1][i].input)).v.frame_ref.quorum_ids = <<>>

\* transaction i of the scanned block holds an inline frame
FrameTx(i) ==
    /\ i \in sourceLoad.decoded
    /\ CalldataFrameDecode(Tail(sourceBlock[1][i].input)).ok
    /\ CalldataFrameDecode(Tail(sourceBlock[1][i].input)).v.kind = "Frame"

\* C14: a batcher transaction whose FrameRef has no quorum IDs contributes no payload and
\* causes no provider request, the scan goes on to the transactions after it and produces
\* their payloads, and the load does not fail at it: a block of such transactions and of
\* transactions with inline frames loads, with the frames as its payloads.
ZeroQuorumIsSkipped ==
    \A i \in 1..MaxTxs :
        (sourceLoad.status # "none" /\ i <= Len(sourceBlock[1]) /\ ZeroQuorumTx(i))
            => /\ \A j \in 1..Len(sourceLoad.out) : sourceLoad.out[j].tx # i
               /\ \A r \in 1..Len(sourceLoad.requests) : sourceLoad.requests[r].tx # i
               /\ sourceLoad.at # i
               /\ sourceLoad.visited >= Min(i + 1, Len(sourceBlock[1]))
               /\ (\A k \in 1..Len(sourceBlock[1]) : ZeroQuorumTx(k) \/ FrameTx(k))
                      => /\ sourceLoad.status = "ok" /\ sourceOpen
                         /\ \A k \in 1..Len(sourceBlock[1]) :
                                FrameTx(k) => \E j \in 1..Len(sourceLoad.out) :
                                                   sourceLoad.out[j].tx = k

\* a block whose first transaction has a FrameRef without quorum IDs and whose second holds
\* a frame has been loaded, and the frame has been returned
SkippedThenFramePayload ==
    /\ sourceOpen /\ Len(sourceBlock[1]) = 2 /\ ZeroQuorumTx(1)
    /\ sourceLoad.status = "ok" /\ sourceLoad.requests = <<>>
    /\ sourceLoad.out = <<[tx |-> 2, data |-> <<7, 8>>]>>
    /\ sourceReturned = <<<<7, 8>>>>

\* transaction i of the scanned block is a batcher transaction whose bytes after the 0xed
\* tag are not an encoding of a CalldataFrame
MalformedTx(i) ==
    /\ i \in sourceLoad.decoded
    /\ ~CalldataFrameLoop(DecodeOk(NoValue, Tail(sourceBlock[1][i].input))).ok

\* C15: when the bytes after the 0xed tag of a batcher transaction are not a valid
\* CalldataFrame, the load fails at that transaction with a ProtoDecodeError and next hands
\* no payload of the block to its caller, those of earlier transactions included.
MalformedFrameFailsLoad ==
    \A i \in 1..MaxTxs :
        (sourceLoad.status # "none" /\ i <= Len(sourceBlock[1]) /\ MalformedTx(i))
            => /\ sourceLoad.status = "err" /\ sourceLoad.at = i
               /\ sourceLoad.error.variant = "ProtoDecodeError"
               /\ ~sourceOpen /\ sourceData = <<>> /\ sourceReturned = <<>>
               /\ ~sourceResult.ok /\ sourceResult.error = "Provider"
               /\ sourceResult.msg[2] = "Failed to decode proto buf, error: "

\* the load of a block has failed at its second transaction, whose frame is malformed,
\* after the scan had taken the frame of the first
FailedAfterFrame ==
    /\ Len(sourceBlock) = 1 /\ Len(sourceBlock[1]) = 2 /\ MalformedTx(2)
    /\ sourceLoad.out = <<[tx |-> 1, data |-> <<7, 8>>]>>
    /\ sourceLoad.status = "err" /\ ~sourceResult.ok /\ sourceResult.kind = "Temporary"

\* the last load failed on a decode: of a calldata frame or of a retrieved payload
DecodeFailure ==
    sourceLoad.status = "err"
        /\ sourceLoad.error.variant \in {"ProtoDecodeError", "RLPDecodeError"}

\* C16: a decode error met while loading a block is reported by next as a critical
\* error, not as a temporary one.
DecodeErrorIsCritical == DecodeFailure => (~sourceResult.ok /\ sourceResult.kind = "Critical")

\* what the caller of next can tell an error by without reading its text
Classification(r) == <<r.kind, r.error>>

\* the kind of failure of the transport: "not_found", "timeout", "backend", or "none"
FailureClass(net) ==
    IF net.kind = "elapsed" THEN "timeout"
    ELSE IF net.kind \in {"send_error", "body_error"} THEN "backend"
    ELSE IF net.status = "404 Not Found" THEN "not_found"
    ELSE IF net.status = "200 OK" THEN "none"
    ELSE "backend"

\* the last request of the last load failed in the transport
RetrievalFailed ==
    /\ sourceLoad.status = "err" /\ sourceLoad.error.variant = "Status"
    /\ Len(sourceLoad.requests) > 0

\* C18: a not-found result, a timeout and a backend failure of the retrieval of a FrameRef
\* reach the caller of next under different classifications: had the transport failed the
\* same request in another of the three ways, next would have returned an error of
\* another classification.
FailuresStayDistinct ==
    RetrievalFailed =>
        \A net \in HttpOutcomes :
            (FailureClass(net) # "none"
                /\ FailureClass(net)
                       # FailureClass(sourceLoad.requests[Len(sourceLoad.requests)].net))
                => Classification(LoadError(RetrieveError(ProviderRetrieve(
                       retrieve_blob_with_commitment(
                           sourceLoad.requests[Len(sourceLoad.requests)].frame_ref.commitment,
                           net)))))
                       # Classification(sourceResult)

\* transaction i of the scanned block is addressed to the batch inbox and signed by the
\* batcher
FromBatcherToInbox(i) ==
    /\ sourceBlock[1][i].to = Some(sourceCfg.batcher_address)
    /\ sourceBlock[1][i].signer = Ok(sourceCfg.signer)

QuorumRefTx(i) ==
    /\ i \in sourceLoad.decoded
    /\ CalldataFrameDecode(Tail(sourceBlock[1][i].input)).ok
    /\ CalldataFrameDecode(Tail(sourceBlock[1][i].input)).v.kind = "FrameRef"
    /\ CalldataFrameDecode(Tail(sourceBlock[1][i].input)).v.frame_ref.quorum_ids # <<>>

\* the payloads the scan has pushed for transaction i, in the order pushed
EmittedFor(i) == PayloadsOf(SelectSeq(sourceLoad.out, LAMBDA e : e.tx = i))

\* request r of the scan was answered with a blob of at least blob_length bytes whose
\* first blob_length bytes are the encoding of a list of byte strings
AnsweredWithList(r) ==
    /\ sourceLoad.requests[r].got.ok
    /\ sourceLoad.requests[r].frame_ref.blob_length <= Len(sourceLoad.requests[r].got.v)
    /\ DecodeVecOfBytes(SubSeq(sourceLoad.requests[r].got.v, 1,
                                sourceLoad.requests[r].frame_ref.blob_length)).ok

\* C21: for a batcher transaction whose calldata is 0xed followed by the encoding of a
\* FrameRef with quorum IDs, one request is made, for the commitment of the FrameRef, and
\* the payloads emitted for the transaction are the items, in order, of the list decoded
\* from the first blob_length bytes of the blob returned; a block that loads hands them
\* to the caller of next.
FrameRefPayloadsAreBlobItems ==
    \A i \in 1..MaxTxs :
        (sourceLoad.status # "none" /\ i <= Len(sourceBlock[1]) /\ QuorumRefTx(i))
            => \A r \in 1..Len(sourceLoad.requests) :
                   sourceLoad.requests[r].tx = i
                       => /\ \A q \in 1..Len(sourceLoad.requests) :
                                 sourceLoad.requests[q].tx = i => q = r
                          /\ sourceLoad.requests[r].frame_ref
                                 = CalldataFrameDecode(
                                       Tail(sourceBlock[1][i].input)).v.frame_ref
                          /\ AnsweredWithList(r)
                                 => /\ EmittedFor(i)
                                        = DecodeVecOfBytes(SubSeq(
                                              sourceLoad.requests[r].got.v, 1,
                                              sourceLoad.requests[r].frame_ref.blob_length)).v
                                    /\ sourceLoad.status = "ok"
                                           => \A j \in 1..Len(EmittedFor(i)) :
                                                  \E k \in 1..Len(sourceReturned \o sourceData) :
                                                      (sourceReturned \o sourceData)[k]
                                                          = EmittedFor(i)[j]

\* a block whose only transaction carries a FrameRef has been loaded from a blob longer
\* than blob_length: the two items of the list in its first five bytes are the payloads
FrameRefBlobCutAndDecoded ==
    /\ sourceOpen /\ Len(sourceBlock[1]) = 1 /\ QuorumRefTx(1)
    /\ Len(sourceLoad.requests) = 1 /\ sourceLoad.requests[1].got.ok
    /\ Len(sourceLoad.requests[1].got.v) > sourceLoad.requests[1].frame_ref.blob_length
    /\ EmittedFor(1) = <<<<9>>, <<4, 5>>>>
    /\ sourceReturned \o sourceData = <<<<9>>, <<4, 5>>>>

\* C22: for every byte string of length n, convert_by_padding_empty_byte returns
\* 32 * (n div 31) bytes, and 1 + n mod 31 more when 31 does not divide n; the first byte
\* of every group of 32 is zero and the bytes after it are the next 31 bytes of the
\* input, the last group holding only what is left.
PadLayout ==
    codecPc \in {"padded", "unpadded", "panicked"}
        => /\ codecPc # "panicked"
           /\ Len(codecPadded)
                  = 32 * (Len(codecData) \div 31)
                        + (IF Len(codecData) % 31 = 0 THEN 0 ELSE 1 + (Len(codecData) % 31))
           /\ \A k \in 1..Len(codecPadded) :
                  codecPadded[k] = IF (k - 1) % 32 = 0 THEN 0
                                   ELSE codecData[((k - 1) \div 32) * 31 + ((k - 1) % 32)]

\* C23: for every byte string of length n, remove_empty_byte_from_padded_bytes returns
\* normally: the bytes after the first of every group of 32, a last group of r < 32
\* bytes giving its r - 1 bytes after the first; 31 * (n div 32) bytes, and
\* (n mod 32) - 1 more when n mod 32 > 1.
UnpadLayout ==
    codecPc \in {"received", "receive_panicked"}
        => /\ codecPc = "received"
           /\ Len(codecOut)
                  = 31 * (Len(codecData) \div 32)
                        + (IF Len(codecData) % 32 > 1 THEN (Len(codecData) % 32) - 1 ELSE 0)
           /\ \A k \in 1..Len(codecOut) :
                  codecOut[k] = codecData[((k - 1) \div 31) * 32 + ((k - 1) % 31) + 2]

\* C24: for every blob and every index i, extract_field_element(blob, i, 32) returns 32
\* bytes: zeros when i * 32 >= len(blob), the bytes from i * 32 on followed by zeros when
\* the blob ends inside the element, and the 32 bytes of the element otherwise.
FieldElementExtracted ==
    codecPc \in {"extracted", "extract_panicked"}
        => /\ codecPc = "extracted"
           /\ Len(codecOut) = 32
           /\ \A k \in 1..Len(codecOut) :
                  codecOut[k] = IF codecIndex.hi > 0 \/ codecIndex.lo * 32 + k > Len(codecData)
                                THEN 0 ELSE codecData[codecIndex.lo * 32 + k]

\* C25: decoding a certificate in which the list of a record has one item more or one item
\* less than the record has fields returns RlpIncorrectListLen, for each of the seven
\* records; an item beyond the fields of a record is never ignored.
WrongArityRejected ==
    certPc = "altered_decoded" => certDecoded = Err("RlpIncorrectListLen")

\* the commitment received was the prefix [0x01, 0x00, 0x00] followed by the RLP encoding
\* of the certificate
PrefixedCertificateReceived ==
    certPc = "received_decoded" /\ certBytes = <<1, 0, 0>> \o EncodeBlobInfo(certValue)

\* C26: for a commitment made of the prefix [0x01, 0x00, 0x00] and the RLP encoding of a
\* certificate, decode_commitment succeeds and the certificate it returns has the
\* data_length of the blob header and the blob_index and batch_id of the verification
\* proof that were encoded.
DecodeCommitmentKeepsIds ==
    PrefixedCertificateReceived
        => /\ certDecoded.ok
           /\ certValue.blob_header # None
                  => /\ certDecoded.v.blob_header # None
                     /\ certDecoded.v.blob_header[1].data_length
                            = certValue.blob_header[1].data_length
           /\ certValue.blob_verification_proof # None
                  => /\ certDecoded.v.blob_verification_proof # None
                     /\ certDecoded.v.blob_verification_proof[1].blob_index
                            = certValue.blob_verification_proof[1].blob_index
                     /\ certDecoded.v.blob_verification_proof[1].batch_id
                            = certValue.blob_verification_proof[1].batch_id

\* a commitment of the shape of the fixture has been decoded: a commitment point, two
\* quorum params, batch metadata, an inclusion proof and two quorum indexes; the decoded
\* certificate has data_length 512, blob_index 165 and batch_id 84142
FixtureIdsDecoded ==
    /\ PrefixedCertificateReceived /\ certDecoded.ok
    /\ certValue.blob_header # None /\ certValue.blob_verification_proof # None
    /\ certValue.blob_header[1].commitment # None
    /\ Len(certValue.blob_header[1].blob_quorum_params) = 2
    /\ certValue.blob_verification_proof[1].batch_metadata # None
    /\ certValue.blob_verification_proof[1].batch_metadata[1].batch_header # None
    /\ certValue.blob_verification_proof[1].quorum_indexes = <<0, 1>>
    /\ Len(certValue.blob_verification_proof[1].inclusion_proof) > 0
    /\ certDecoded.v.blob_header[1].data_length = 512
    /\ certDecoded.v.blob_verification_proof[1].blob_index = 165
    /\ certDecoded.v.blob_verification_proof[1].batch_id = 84142

\* instance t has sent a hint of 32 bytes or less
ShortHintSent(t) == pc[t] # "idle" /\ Len(hintData[t]) <= 32

\* a hint of 32 bytes or less is never in the fetch or under the lock, no blob was fetched
\* for it and its outcome is the error of the length check
ShortHintFailed ==
    \A t \in Instances :
        ShortHintSent(t) => /\ pc[t] \in {"hinted", "done", "sdk_done"}
                            /\ hostBlob[t] = <<>>
                            /\ hintResult[t] = "Invalid hint data length"

\* the step that takes a hint of 32 bytes or less leaves the store and its lock alone
ShortHintWritesNothing ==
    \A t \in Instances :
        (pc[t] = "idle" /\ pc'[t] # "idle" /\ Len(hintData'[t]) <= 32)
            => kv' = kv /\ kvLock' = kvLock /\ hostBlob' = hostBlob /\ lastHint' = lastHint

\* C27: an EigenDa hint whose data is 32 bytes long or shorter is rejected with the error
\* of the length check, before any request to the EigenDA provider and with the
\* key-value store unchanged.
ShortHintRejected == []ShortHintFailed /\ [][ShortHintWritesNothing]_vars

\* a hint of exactly 32 bytes has been rejected while the store held the entries of an
\* earlier hint
Rejected32ByteHint ==
    \E t \in Instances :
        /\ pc[t] = "hinted" /\ Len(hintData[t]) = 32
        /\ hintResult[t] = "Invalid hint data length"
        /\ lastHint.status = "ok" /\ kv # <<>>

\* C28: every transport operation eventually returns a value or an error, whatever the
\* remote end does and in whichever phase it stays silent: while the connection is made,
\* while the request is answered, while the body of the response is read.
TransportOperationReturns == <>(netPc = "returned")

\* the write lock of the store is held by the instance whose handler is between
\* kv.write().await and its return, and by no other
LockHeldOnlyWhileWriting ==
    /\ kvLock \in {0} \cup Instances
    /\ \A t \in Instances : kvLock = t <=> pc[t] = "locked"

\* the lock is taken by a handler whose fetch has returned, from the free lock, and the
\* next step of the handler that holds it releases it
LockTakenAfterFetch ==
    \A t \in Instances :
        /\ (pc'[t] = "waiting_lock" /\ pc[t] # "waiting_lock") => pc[t] = "fetching"
        /\ (kvLock' = t /\ kvLock # t) => (pc[t] = "waiting_lock" /\ kvLock = 0)
        /\ (pc[t] = "locked" /\ pc'[t] # "locked") => (pc'[t] = "hinted" /\ kvLock' = 0)

\* C29: the host's EigenDa hint handler never holds the write lock of the key-value store
\* while the blob is fetched: the lock is acquired only after the fetch has returned and
\* is released by the handler's next step, so the handler of another hint gets the lock
\* while this one fetches.
NoLockAcrossFetch == []LockHeldOnlyWhileWriting /\ [][LockTakenAfterFetch]_vars

\* one handler holds the write lock while the handler of another hint is fetching
LockedWhileOtherFetches ==
    \E t, u \in Instances :
        /\ t # u /\ pc[t] = "fetching" /\ pc[u] = "locked" /\ kvLock = u

\* clear has run and next has not been called since
JustCleared == sourceResult.kind = "cleared"

\* after clear the source holds no payload and is not open
ClearedSourceIsEmpty == JustCleared => (sourceData = <<>> /\ ~sourceOpen)

\* the call of next that follows clear scans the block it is given: load_blobs runs on it,
\* and what the call returns and what it leaves buffered are the payloads of that scan
NextAfterClearScans ==
    (JustCleared /\ sourceResult'.kind # "cleared")
        => /\ sourceBlock' # None /\ sourceLoad'.status # "none"
           /\ sourceLoad'.status = "ok"
                  => /\ sourceOpen'
                     /\ sourceReturned' \o sourceData' = PayloadsOf(sourceLoad'.out)
           /\ sourceLoad'.status # "ok" => (~sourceOpen' /\ sourceData' = <<>>)

\* C30: from any state, clear, called on the EigenDA source or through
\* EthereumDataSource::clear, leaves the source with no buffered payloads and not open,
\* and the next call of next scans the block it is given again.
ClearResetsSource == []ClearedSourceIsEmpty /\ [][NextAfterClearScans]_vars

\* EthereumDataSource::clear has run on an open source that held payloads of its block
ClearedOpenSourceWithPayloads ==
    /\ JustCleared /\ sourceResult.msg = <<"EthereumDataSource">>
    /\ sourceResult.v = <<TRUE>> /\ sourceData = <<>> /\ ~sourceOpen

\* the number of blob versioned hashes carried by the first n transactions of a block
RECURSIVE HashesCarried(_, _)
HashesCarried(txs, n) ==
    IF n = 0 THEN 0 ELSE HashesCarried(txs, n - 1) + Len(BlobHashesOf(txs[n]))

\* the position of the h-th collected hash within its own transaction
PositionInTx(hashes, h) == Cardinality({k \in 1..(h - 1) : hashes[k].tx = hashes[h].tx})

\* C31: the index recorded with each collected blob hash is the number of blob versioned
\* hashes carried by all transactions that precede it in the block, plus its position
\* within its own transaction
BlobHashIndexIsBlockIndex ==
    sourceBlock # None =>
        \A h \in 1..Len(sourceLoad.hashes) :
            sourceLoad.hashes[h].index =
                HashesCarried(sourceBlock[1], sourceLoad.hashes[h].tx - 1)
                    + PositionInTx(sourceLoad.hashes, h)

\* a transaction the scan takes for one of the batcher: an envelope type it reads, sent to
\* the batch inbox and signed by the batcher
MatchingTx(tx) ==
    tx.ty \in {"Legacy", "Eip2930", "Eip1559", "Eip4844"} /\ IsBatcherTx(tx, sourceCfg)

\* C32: with da_indexer_enable() = true, the load of a block that contains a matching
\* batcher transaction fails with an error
IndexerLoadFails ==
    (/\ sourceBlock # None /\ sourceLoad.status # "none"
     /\ sourceCfg.da_indexer_enable
     /\ \E k \in 1..Len(sourceBlock[1]) : MatchingTx(sourceBlock[1][k]))
        => sourceLoad.status = "err"

\* get_blob of the provider of proof-sdk has returned for instance t, the last handler
\* run before its read was the successful one for its commitment, and the buffer it read
\* into had the length of the blob the handler fetched
SdkReadAfterHandledOk(t) ==
    /\ pc[t] = "sdk_done"
    /\ HandledOk(getBlobResult[t].after)
    /\ getBlobResult[t].after.commitment = hintData[t]
    /\ Len(getBlobResult[t].blob) = Len(getBlobResult[t].after.blob)

\* C33: the one read of the provider that reads a blob per commitment, under the
\* GlobalGeneric key of x, y and a zero byte with a buffer of blob_len bytes, succeeds
\* and returns the blob the host's handler fetched for that commitment
SdkReadReturnsHostBlob ==
    \A t \in Instances :
        SdkReadAfterHandledOk(t) =>
            getBlobResult[t].ok /\ getBlobResult[t].out = getBlobResult[t].after.blob

\* the handler of instance t ends in this step, and its hint has failed
HintFails(t) == pc[t] # "hinted" /\ pc'[t] = "hinted" /\ hintResult'[t] # "ok"

\* C34: when the host's EigenDa hint handler fails, at the blob fetch, the certificate
\* decode, the blob size check or the witness computation, the key-value store holds
\* exactly the entries it held before: no partial set of field-element entries is left
FailedHintKeepsStore == [][\A t \in Instances : HintFails(t) => kv' = kv]_vars

\* the scan made a request whose answer is a blob shorter than the blob_length of the
\* FrameRef
ShortBlobReturned ==
    \E r \in 1..Len(sourceLoad.requests) :
        /\ sourceLoad.requests[r].got.ok
        /\ Len(sourceLoad.requests[r].got.v) < sourceLoad.requests[r].frame_ref.blob_length

\* C35: when the blob returned for a FrameRef is shorter than the FrameRef's blob_length,
\* the load of the block returns an error and does not panic
ShortBlobIsAnError ==
    ShortBlobReturned =>
        /\ sourceLoad.status = "err"
        /\ ~sourceResult.ok /\ sourceResult.kind = "Temporary" /\ sourceResult.error = "Provider"

\* the load of the last call of next failed with an error
LoadFailed == sourceLoad.status = "err"

\* the step in which a load fails leaves the source not open and its buffer as it was
FailedLoadLeavesSource ==
    (sourceLoad'.status = "err" /\ sourceLoad' # sourceLoad)
        => /\ ~sourceOpen /\ ~sourceOpen'
           /\ sourceData' = sourceData /\ sourceReturned' = sourceReturned
           /\ ~sourceResult'.ok /\ sourceResult'.error = "Provider"

\* what the providers answered during a load, read from its record: the chain provider,
\* the transport for each request made, and the blob provider
AnswersOf(load) ==
    {[chain |-> IF load.status = "err" /\ load.at = 0 THEN "error" ELSE "ok",
      nets |-> [j \in 1..Len(load.requests) |-> load.requests[j].net],
      blobs |-> blobs] : blobs \in BlobOutcomes \cup {NoBlobs}}

\* after a failed load nothing is buffered, and the call of next that follows runs
\* load_blobs on the block from the chain provider on: its record is that of a whole load
\* with the answers it got
RetryLoadsFromStart ==
    /\ LoadFailed => (~sourceOpen /\ sourceData = <<>>)
    /\ (LoadFailed /\ sourceResult'.kind # "cleared")
           => /\ sourceBlock' # None
              /\ sourceLoad' \in {load_blobs(sourceBlock'[1], sourceCfg, env)
                                     : env \in AnswersOf(sourceLoad')}
              /\ sourceLoad'.status = "ok"
                     => /\ sourceOpen'
                        /\ sourceReturned' \o sourceData' = PayloadsOf(sourceLoad'.out)

\* C36: when the load of a block fails, on the chain provider, a frame decode, a
\* retrieval or the blob fetch, the source stays not open with its buffered payloads
\* unchanged, and the next call of next attempts the whole load again from the start
FailedLoadIsRetried == [][FailedLoadLeavesSource /\ RetryLoadsFromStart]_vars

\* the load of a block has failed on the retrieval of the blob of its second
\* transaction, after the scan had taken the frame of the first
FailedOnRetrievalAfterFrame ==
    /\ Len(sourceBlock) = 1 /\ Len(sourceBlock[1]) = 2
    /\ sourceLoad.out = <<[tx |-> 1, data |-> <<7, 8>>]>>
    /\ LoadFailed /\ sourceLoad.at = 2 /\ sourceLoad.error.variant = "Status"
    /\ ~sourceOpen /\ sourceData = <<>>
    /\ ~sourceResult.ok /\ sourceResult.kind = "Temporary"

\* a step that is a call of next
CallOfNext == sourceResult'.kind # "cleared" /\ sourceRef' # None

\* a call of next on an open source leaves the record of the load as it is: the chain
\* provider, the blob provider and the EigenDA provider are not asked, and the block of the
\* source stays the loaded one whatever block reference the call passes
OpenSourceAsksNoProvider ==
    (sourceOpen /\ CallOfNext) => (sourceLoad' = sourceLoad /\ sourceBlock' = sourceBlock)

\* once the transactions of the block have been scanned, no call of next scans them again
\* before clear
ScannedOncePerClear ==
    (sourceLoad.visited > 0 /\ CallOfNext)
        => (sourceLoad' = sourceLoad \/ sourceLoad'.visited = 0)

\* C37 as stated: while the source is open calls of next make no request to a provider,
\* and between two clears the block's transactions are scanned and its blobs retrieved at
\* most once
ScannedAtMostOnceBetweenClears == [][OpenSourceAsksNoProvider /\ ScannedOncePerClear]_vars

\* a call of next scans again only when the load before it failed
RescanOnlyAfterFailure ==
    (sourceLoad.status # "none" /\ CallOfNext /\ sourceLoad' # sourceLoad)
        => (LoadFailed /\ ~sourceOpen)

\* C37 as amended: while the source is open calls of next make no request to a provider,
\* whatever block reference they pass; once a load has succeeded the block is not scanned
\* and its blobs are not retrieved again before clear, and only a load that failed is
\* run again
OpenSourceNeverRescans ==
    /\ [](sourceOpen <=> sourceLoad.status = "ok")
    /\ [][OpenSourceAsksNoProvider /\ RescanOnlyAfterFailure]_vars

\* an open source whose load retrieved a blob has been called with the reference of
\* another block and has returned a payload of the loaded one
OpenSourceGivenOtherBlock ==
    /\ sourceOpen /\ sourceRef # None /\ sourceRef # sourceBlock
    /\ sourceLoad.status = "ok" /\ Len(sourceLoad.requests) > 0
    /\ Len(sourceReturned) = 2 /\ sourceResult.ok

\* the preimage hashed for the key of a write
PreimageOf(w) == w.key.hash.digest_of

\* two preimages differ in length, or are both 96 bytes long and differ in the index bytes
DifferInIndexOrLength(p, q) ==
    \/ Len(p) # Len(q)
    \/ Len(p) = 96 /\ Len(q) = 96 /\ SubSeq(p, 89, 96) # SubSeq(q, 89, 96)

\* C38: within one EigenDa hint the preimages of the element keys of distinct indices, of
\* the proof key and of the commitment key are pairwise different, in the index bytes or
\* in length (96, 64 and 65 bytes), so no two writes of the hint with the same key type
\* target the same (hash, type) key
HintKeysPairwiseDistinct ==
    /\ \A a \in 1..Len(lastHint.writes) :
           Len(PreimageOf(lastHint.writes[a])) \in {96, 64, 65}
    /\ \A a, b \in 1..Len(lastHint.writes) :
           (a # b /\ lastHint.writes[a].key.ty = lastHint.writes[b].key.ty)
               => /\ lastHint.writes[a].key # lastHint.writes[b].key
                  /\ DifferInIndexOrLength(PreimageOf(lastHint.writes[a]),
                                           PreimageOf(lastHint.writes[b]))

\* a hint for a certificate of two field elements has been handled: two element keys, the
\* proof key and the commitment key, each written under both key types
HandledFourDistinctKeys ==
    /\ HandledOk(lastHint) /\ HeaderOf(lastHint.commitment).data_length = 2
    /\ Cardinality({PreimageOf(lastHint.writes[a]) : a \in 1..Len(lastHint.writes)}) = 4
    /\ Cardinality({lastHint.writes[a].key : a \in 1..Len(lastHint.writes)}) = 8

\* ---------------------------------------------------------------------------------------
\* The batch reader (protocol/src/batch/reader.rs)
\* ---------------------------------------------------------------------------------------

\* the number of calls of next_batch followed on one reader
MaxReaderCalls == 3

\* the two sums of the Adler-32 checksum of a zlib stream
RECURSIVE Adler32A(_)
Adler32A(d) ==
    IF Len(d) = 0 THEN 1 ELSE (Adler32A(SubSeq(d, 1, Len(d) - 1)) + d[Len(d)]) % 65521

RECURSIVE Adler32B(_)
Adler32B(d) ==
    IF Len(d) = 0 THEN 0 ELSE (Adler32B(SubSeq(d, 1, Len(d) - 1)) + Adler32A(d)) % 65521

Adler32(d) == Adler32B(d) * 65536 + Adler32A(d)

\* a 16-bit length in little-endian order
LE16(n) == <<n % 256, n \div 256>>

\* a zlib stream that carries d in one final stored block: header 0x78 0x01, block header 1,
\* LEN and its complement, the data, and the Adler-32 of the data in big-endian order
ZlibStored(d) ==
    <<120, 1, 1>> \o LE16(Len(d)) \o LE16(65535 - Len(d)) \o d \o BEFixed(Adler32(d), 4)

\* miniz_oxide's decompress_to_vec_zlib on a stream of one final stored block: the header
\* check (CM = 8, FCHECK, no preset dictionary), LEN against NLEN, the length of the input
\* and the checksum; every other stream of the model's inputs is an error
DecompressToVecZlib(raw) ==
    IF \/ Len(raw) < 7
       \/ (raw[1] * 256 + raw[2]) % 31 # 0 \/ raw[1] % 16 # 8 \/ (raw[2] \div 32) % 2 = 1
       \/ raw[3] # 1
    THEN Err("decompress")
    ELSE LET len == raw[4] + 256 * raw[5]
             nlen == raw[6] + 256 * raw[7]
         IN  IF nlen # 65535 - len \/ Len(raw) < 11 + len
             THEN Err("decompress")
             ELSE IF BEValue(SubSeq(raw, 8 + len, 11 + len)) # Adler32(SubSeq(raw, 8, 7 + len))
                  THEN Err("decompress")
                  ELSE Ok(SubSeq(raw, 8, 7 + len))

\* alloy_rlp's Header::decode: [list, payload_length, start], start being the index of the
\* first payload byte in buf
AlloyHeader(list, len, start) == [list |-> list, payload_length |-> len, start |-> start]

AlloyHeaderOf(buf) ==
    IF Len(buf) = 0 THEN Err("InputTooShort")
    ELSE LET b == buf[1]
         IN  IF b < 128 THEN Ok(AlloyHeader(FALSE, 1, 1))
             ELSE IF b <= 183
             THEN IF b = 129 /\ Len(buf) < 2 THEN Err("InputTooShort")
                  ELSE IF b = 129 /\ buf[2] < 128 THEN Err("NonCanonicalSingleByte")
                  ELSE Ok(AlloyHeader(FALSE, b - 128, 2))
             ELSE IF b >= 192 /\ b <= 247 THEN Ok(AlloyHeader(TRUE, b - 192, 2))
             ELSE LET len_of_len == IF b >= 248 THEN b - 247 ELSE b - 183
                  IN  IF Len(buf) < 1 + len_of_len THEN Err("InputTooShort")
                      ELSE IF buf[2] = 0 THEN Err("LeadingZero")
                      ELSE IF BEValue(SubSeq(buf, 2, 1 + len_of_len)) < 56
                      THEN Err("NonCanonicalSize")
                      ELSE Ok(AlloyHeader(b >= 248, BEValue(SubSeq(buf, 2, 1 + len_of_len)),
                                          2 + len_of_len))

AlloyHeaderDecode(buf) ==
    LET h == AlloyHeaderOf(buf)
    IN  IF h.ok /\ Len(buf) - (h.v.start - 1) < h.v.payload_length
        THEN Err("InputTooShort") ELSE h

\* Bytes::decode(&mut buf): the payload of the string at the head of buf and what is left of
\* buf after it; a list is an error
BytesDecode(buf) ==
    LET h == AlloyHeaderDecode(buf)
    IN  IF ~h.ok THEN [ok |-> FALSE, bytes |-> <<>>, rest |-> buf]
        ELSE IF h.v.list THEN [ok |-> FALSE, bytes |-> <<>>, rest |-> buf]
        ELSE [ok |-> TRUE,
              bytes |-> SubSeq(buf, h.v.start, h.v.start + h.v.payload_length - 1),
              rest |-> SubSeq(buf, h.v.start + h.v.payload_length, Len(buf))]

\* Batch::decode: the first byte is the batch type, 0 a single batch and 1 a span batch, the
\* rest the batch's content, kept as it is; no type byte, no content or another type is an
\* error
BatchDecode(bytes) ==
    IF Len(bytes) < 2 THEN Err("batch")
    ELSE IF bytes[1] \notin {0, 1} THEN Err("batch")
    ELSE Ok([type |-> bytes[1], content |-> Tail(bytes)])

\* the RLP string of a single batch with content <<k>>
BatchItem(k) == RlpBytes(<<0, k>>)

\* what a channel inflates to: nothing, one, two and three batches, a batch of an unknown
\* type alone and after a batch, a string cut short, a list and a non-canonical string
ChannelContents ==
    { <<>>, BatchItem(7), BatchItem(7) \o BatchItem(8),
      BatchItem(7) \o BatchItem(8) \o BatchItem(9),
      RlpBytes(<<2, 9>>), BatchItem(7) \o RlpBytes(<<2, 9>>),
      <<130, 0>>, <<192>>, <<129, 5>> }

\* the raw data given to BatchReader::new: no data, bytes that are no zlib stream, a stream
\* with a wrong checksum, and the streams of the channel contents
ReaderInputs ==
    { <<>>, <<1, 2, 3, 4, 5, 6, 7>>,
      SubSeq(ZlibStored(BatchItem(7)), 1, 10) \o <<0, 0, 0, 0>> }
        \cup { ZlibStored(d) : d \in ChannelContents }

\* the values of max_rlp_bytes_per_channel
ReaderMaxima == {2, 3, 5, 6, 9}

\* BatchReader::new(data, max_rlp_bytes_per_channel)
InitReader ==
    /\ readerData \in { Some(raw) : raw \in ReaderInputs }
    /\ readerDecompressed = <<>>
    /\ readerCursor = 0
    /\ readerMax \in ReaderMaxima
    /\ readerResult = NoBatch
    /\ readerCalls = 0
    /\ DriverIdle
    /\ CodecIdle /\ CertIdle /\ OracleIdle /\ srsLoaded = TRUE
    /\ ProxyIdle /\ SourceIdle /\ NetIdle

\* the reader after the first half of next_batch: [returned, data, decompressed]. The data
\* are taken out of self.data; empty data and data that do not inflate return None, what
\* they inflate to is assigned to self.decompressed before its length is compared with
\* the maximum
TakeData(data, decompressed, max) ==
    IF data = None THEN [returned |-> FALSE, data |-> None, decompressed |-> decompressed]
    ELSE IF Len(data[1]) = 0
    THEN [returned |-> TRUE, data |-> None, decompressed |-> decompressed]
    ELSE LET z == DecompressToVecZlib(data[1])
         IN  IF ~z.ok THEN [returned |-> TRUE, data |-> None, decompressed |-> decompressed]
             ELSE [returned |-> Len(z.v) > max, data |-> None, decompressed |-> z.v]

\* the second half of next_batch: [batch, cursor]. The string at the cursor is decoded and
\* the batch in it; the cursor moves past the string only when a batch is returned
DecodeAtCursor(decompressed, cursor) ==
    LET b == BytesDecode(SubSeq(decompressed, cursor + 1, Len(decompressed)))
    IN  IF ~b.ok THEN [batch |-> NoBatch, cursor |-> cursor]
        ELSE IF ~BatchDecode(b.bytes).ok THEN [batch |-> NoBatch, cursor |-> cursor]
        ELSE [batch |-> [some |-> TRUE, batch |-> BatchDecode(b.bytes).v],
              cursor |-> Len(decompressed) - Len(b.rest)]

\* BatchReader::next_batch
NextBatch ==
    /\ readerCalls < MaxReaderCalls
    /\ LET t == TakeData(readerData, readerDecompressed, readerMax)
           d == DecodeAtCursor(t.decompressed, readerCursor)
       IN  /\ readerData' = t.data
           /\ readerDecompressed' = t.decompressed
           /\ readerResult' = IF t.returned THEN NoBatch ELSE d.batch
           /\ readerCursor' = IF t.returned THEN readerCursor ELSE d.cursor
    /\ readerCalls' = readerCalls + 1
    /\ UNCHANGED readerMax
    /\ UNCHANGED <<codecVars, certVars, oracleVars, proxyVars, sourceVars, netVars, driverVars>>

SpecReader == InitReader /\ [][NextBatch]_vars

\* the reader holds decompressed data larger than max_rlp_bytes_per_channel
Oversized == Len(readerDecompressed) > readerMax

\* C39: if the decompressed channel data is larger than max_rlp_bytes_per_channel,
\* next_batch returns None on the call that decompressed them and on every later call
OversizedNeverDecoded == (readerCalls > 0 /\ Oversized) => ~readerResult.some

\* ---------------------------------------------------------------------------------------
\* The driver (driver/src/core.rs)
\* ---------------------------------------------------------------------------------------

\* the largest target, the largest safe head the driver starts from, and the most payloads
\* the pipeline can produce
MaxTarget == 3
MaxSafeHead == 2
MaxPayloads == 3

\* the target arguments of advance_to_target
Targets == {None} \cup { Some(t) : t \in 0..MaxTarget }

\* what produce_payload can return with the given number of payloads left in the source:
\* attributes while there are some, Critical(EndOfSource) when the source is exhausted, and
\* any other error at any time
ProducePayloadOutcomes(source) ==
    IF source > 0 THEN {"attributes", "error"} ELSE {"EndOfSource", "error"}

\* the errors between the execution of a payload and the advance of the cursor: a
\* transaction that does not decode, no pipeline origin, from_block_and_genesis,
\* compute_output_root
BlockErrors == {"Rlp", "MissingOrigin", "FromBlock", "Executor"}

\* a call of advance_to_target(cfg, target) on a driver whose cursor is at some safe head
InitDriver ==
    /\ driverPc = "loop"
    /\ driverAsked \in Targets
    /\ driverTarget = driverAsked
    /\ driverSafeHead \in 0..MaxSafeHead
    /\ driverSource \in 0..MaxPayloads
    /\ driverEos = FALSE
    /\ driverResult = NoDriverResult
    /\ ReaderIdle
    /\ CodecIdle /\ CertIdle /\ OracleIdle /\ srsLoaded = TRUE
    /\ ProxyIdle /\ SourceIdle /\ NetIdle

\* the check at the head of the loop: the safe head is at or past the target
TargetReached == driverTarget # None /\ driverSafeHead >= driverTarget[1]

\* what the actions of the driver leave alone
DriverFrame ==
    /\ UNCHANGED driverAsked
    /\ UNCHANGED <<codecVars, certVars, oracleVars, proxyVars, sourceVars, netVars, readerVars>>

\* the safe head has reached the target: Ok with the cursor's safe head
ReturnSafeHead ==
    /\ driverPc = "loop" /\ TargetReached
    /\ driverPc' = "returned"
    /\ driverResult' = [ok |-> TRUE, number |-> driverSafeHead, error |-> ""]
    /\ UNCHANGED <<driverTarget, driverSafeHead, driverSource, driverEos>>
    /\ DriverFrame

\* produce_payload reports EndOfSource: the target becomes the current safe head, if there
\* is a target, and the loop continues
EndOfSource ==
    /\ driverPc = "loop" /\ ~TargetReached
    /\ "EndOfSource" \in ProducePayloadOutcomes(driverSource)
    /\ driverTarget' = IF driverTarget # None THEN Some(driverSafeHead) ELSE driverTarget
    /\ driverEos' = TRUE
    /\ UNCHANGED <<driverPc, driverSafeHead, driverSource, driverResult>>
    /\ DriverFrame

\* the variant of PipelineFails that treats every error of produce_payload as EndOfSource
PipelineFailsHalts ==
    /\ driverPc = "loop" /\ ~TargetReached
    /\ "error" \in ProducePayloadOutcomes(driverSource)
    /\ driverTarget' = IF driverTarget # None THEN Some(driverSafeHead) ELSE driverTarget
    /\ UNCHANGED <<driverPc, driverSafeHead, driverSource, driverResult, driverEos>>
    /\ DriverFrame

\* produce_payload fails with another error: Err(DriverError::Pipeline)
PipelineFails ==
    /\ driverPc = "loop" /\ ~TargetReached
    /\ "error" \in ProducePayloadOutcomes(driverSource)
    /\ driverPc' = "returned"
    /\ driverResult' = [ok |-> FALSE, number |-> 0, error |-> "Pipeline"]
    /\ UNCHANGED <<driverTarget, driverSafeHead, driverSource, driverEos>>
    /\ DriverFrame

\* the payload is produced and its execution fails: the block is discarded and the loop
\* continues
ExecutionFails ==
    /\ driverPc = "loop" /\ ~TargetReached
    /\ "attributes" \in ProducePayloadOutcomes(driverSource)
    /\ driverSource' = driverSource - 1
    /\ UNCHANGED <<driverPc, driverTarget, driverSafeHead, driverEos, driverResult>>
    /\ DriverFrame

\* the payload is produced and executed, and the block, the origin, the block info or the
\* output root fails: the error is returned
BlockFails(e) ==
    /\ driverPc = "loop" /\ ~TargetReached
    /\ "attributes" \in ProducePayloadOutcomes(driverSource)
    /\ driverSource' = driverSource - 1
    /\ driverPc' = "returned"
    /\ driverResult' = [ok |-> FALSE, number |-> 0, error |-> e]
    /\ UNCHANGED <<driverTarget, driverSafeHead, driverEos>>
    /\ DriverFrame

\* the payload is produced and executed and the cursor advances to the new block, the
\* child of the safe head
AdvanceCursor ==
    /\ driverPc = "loop" /\ ~TargetReached
    /\ "attributes" \in ProducePayloadOutcomes(driverSource)
    /\ driverSource' = driverSource - 1
    /\ driverSafeHead' = driverSafeHead + 1
    /\ UNCHANGED <<driverPc, driverTarget, driverEos, driverResult>>
    /\ DriverFrame

\* one pass of the loop of advance_to_target
NextDriver ==
    \/ ReturnSafeHead
    \/ EndOfSource
    \/ PipelineFails
    \/ ExecutionFails
    \/ \E e \in BlockErrors : BlockFails(e)
    \/ AdvanceCursor

SpecDriver == InitDriver /\ [][NextDriver]_vars

\* advance_to_target has returned Ok
ReturnedOk == driverPc = "returned" /\ driverResult.ok

\* C40: advance_to_target called with Some(t) returns Ok only with the cursor's safe head,
\* and that safe head is at least t or the pipeline has reported EndOfSource, with no
\* payload left in the source; on a return of Ok below t the source was exhausted
OkOnlyAtTargetOrEndOfSource ==
    (ReturnedOk /\ driverAsked # None)
        => /\ driverResult.number = driverSafeHead
           /\ \/ driverResult.number >= driverAsked[1]
              \/ driverEos /\ driverSource = 0

\* the call returned Ok with safe head 2, below its target 3, after the pipeline reported
\* EndOfSource
ReturnedOkBelowTarget ==
    /\ ReturnedOk /\ driverAsked = Some(MaxTarget) /\ driverEos
    /\ driverResult.number = 2 /\ driverResult.number < driverAsked[1]

====
